---- MODULE Spec2Model ----
(***************************************************************************)
(* mktoc: conversion of a CUE sheet into a cdrdao TOC file.                *)
(*                                                                         *)
(* The model follows CueParser (src/src/mktoc/parser.py), the WAV file     *)
(* lookup (src/src/mktoc/wav.py) and the disc classes Disc, Track,         *)
(* TrackIndex and _TrackTime (src/mktoc/disc.py).  A run of the main       *)
(* specification is one construction of a CueParser followed by getToc().  *)
(* SpecTime applies the _TrackTime operations to drawn operands, SpecCmd   *)
(* is one run of main() (src/mktoc/cmdline.py), SpecWav one WavFileCache   *)
(* object of src/mktoc/wav.py and its calls, SpecFsm one StateMachine      *)
(* (src/mktoc/fsm.py) and its runs, SpecBar one ProgressBar                *)
(* (src/mktoc/progress_bar.py) and its += operations.                      *)
(***************************************************************************)
EXTENDS Integers, Sequences, FiniteSets, TLC

VARIABLES
    fh,           \* the lines of the CUE input handed to CueParser
    findWav,      \* _Parser._find_wav
    disk,         \* names of the WAV files that exist in the working directory
    pc,           \* position of the conversion
    err,          \* name of the exception that ended the conversion, or NoErr
    errLine,      \* the line text carried by the error message, or NoLine
    cue,          \* CueParser._cue
    fileMap,      \* _Parser._file_map
    wavCache,     \* WavFileCache._data (with its "initialised" mark)
    files,        \* _Parser._files
    fileLines,    \* CueParser._file_lines
    trackLines,   \* CueParser._track_lines
    disc,         \* _Parser._disc
    tracks,       \* _Parser._tracks
    built,        \* the tracks as _parse_all_tracks returned them
    ti,           \* rewrite pass: position in the track list (1-based)
    ii,           \* rewrite pass: position in Track.indexes (1-based)
    subs,         \* operand pairs of the _TrackTime subtractions of the last step
    toc,          \* the lines getToc() returned
    tx, ty, tn,   \* operands of the _TrackTime checks
    tres,         \* result of the _TrackTime operation applied to them
    opt,          \* the options _parse_args returned
    cd,           \* cd_obj, the parser data CommandLine._run holds
    stderr,       \* what the command has written to stderr
    tocOut,       \* the lines written to the TOC output
    exitCode,     \* the value main() returned, or NoExit
    wdata,        \* WavFileCache._data of the cache under test
    wscans,       \* number of directory walks _init_cache has made
    wcalls,       \* number of calls of the cache so far
    wres,         \* outcome of the last call of the cache
    fsmRegex,     \* StateMachine.__regex_obj
    fsmHandlers,  \* StateMachine.__match_handlers
    fsmArgs,      \* the arguments of the last change_state call
    fsmLines,     \* the list the state machine is called on
    fsmPos,       \* number of lines of that list the loop has passed
    fsmLog,       \* the handler invocations of the call, in order
    barMax,       \* ProgressBar.bar_max
    barSize,      \* ProgressBar._size
    barOther,     \* the operand of the last +=
    barAdds       \* number of += operations so far

vars == <<fh, findWav, disk, pc, err, errLine, cue, fileMap, wavCache, files,
          fileLines, trackLines, disc, tracks, built, ti, ii, subs, toc,
          tx, ty, tn, tres, opt, cd, stderr, tocOut, exitCode,
          wdata, wscans, wcalls, wres,
          fsmRegex, fsmHandlers, fsmArgs, fsmLines, fsmPos, fsmLog,
          barMax, barSize, barOther, barAdds>>

parseVars == <<cue, fileMap, wavCache, files, fileLines, trackLines, disc,
               tracks, built, ti, ii, subs, toc>>

envVars == <<fh, findWav, disk>>

timeVars == <<tx, ty, tn, tres>>

cmdVars == <<opt, cd, stderr, tocOut, exitCode>>

wavVars == <<wdata, wscans, wcalls, wres>>

fsmVars == <<fsmRegex, fsmHandlers, fsmArgs, fsmLines, fsmPos, fsmLog>>

barVars == <<barMax, barSize, barOther, barAdds>>

libVars == <<fsmVars, barVars>>

----------------------------------------------------------------------------
(* Bounds of the model *)

\* largest number of tracks of a track layout
MaxTracks == 2
\* largest number of INDEX lines of a track layout
MaxIdx == 3
\* largest number of INDEX lines of a track layout whose index times are free
MaxIdxFree == 2
\* largest number of lines of a free-form CUE sheet
MaxLines == 3
\* largest minute value of the _TrackTime operands
MaxMin == 1
\* disc-info lines above the FILE line of a sheet
MaxDiscLines == 2

----------------------------------------------------------------------------
(* _TrackTime *)

FPS == 75
SPM == 60
FPM == FPS * SPM

ZeroTime == <<0, 0, 0>>

\* the int branch of __init__ with the division by _FPM left out
TimeFromFramesNoMinutes(n) == <<0, n \div FPS, n % FPS>>

\* _TrackTime.__init__ with an int argument: divmod by _FPM, then by _FPS
TimeFromFrames(n) ==
    LET min_ == n \div FPM
        fr1  == n % FPM
        sec  == fr1 \div FPS
        fr   == fr1 % FPS
    IN  <<min_, sec, fr>>

\* the frame count a triple stands for, with 75 frames per second and 60
\* seconds per minute
Frames(t) == (t[1] * SPM + t[2]) * FPS + t[3]

SubNoUnderflowCheck(x, y) ==
    LET mn0 == x[1] - y[1]
        sc0 == x[2] - y[2]
        fr0 == x[3] - y[3]
        sc1 == IF fr0 < 0 THEN sc0 - 1 ELSE sc0
        fr1 == IF fr0 < 0 THEN fr0 + FPS ELSE fr0
        mn2 == IF sc1 < 0 THEN mn0 - 1 ELSE mn0
        sc2 == IF sc1 < 0 THEN sc1 + SPM ELSE sc1
    IN  [ok |-> TRUE, v |-> <<mn2, sc2, fr1>>]

SubNoFrameBorrow(x, y) ==
    LET mn0 == x[1] - y[1]
        sc0 == x[2] - y[2]
        fr0 == x[3] - y[3]
        sc1 == sc0
        fr1 == IF fr0 < 0 THEN fr0 + FPS ELSE fr0
        mn2 == IF sc1 < 0 THEN mn0 - 1 ELSE mn0
        sc2 == IF sc1 < 0 THEN sc1 + SPM ELSE sc1
    IN  IF mn2 < 0 THEN [ok |-> FALSE, v |-> ZeroTime]
        ELSE [ok |-> TRUE, v |-> <<mn2, sc2, fr1>>]

\* _TrackTime.__sub__: component-wise difference, one borrow of _FPS frames,
\* one borrow of _SPM seconds, UnderflowError when the minutes are negative.
\* ok = FALSE stands for the raised UnderflowError.
TimeSub(x, y) ==
    LET mn0 == x[1] - y[1]
        sc0 == x[2] - y[2]
        fr0 == x[3] - y[3]
        sc1 == IF fr0 < 0 THEN sc0 - 1 ELSE sc0
        fr1 == IF fr0 < 0 THEN fr0 + FPS ELSE fr0
        mn2 == IF sc1 < 0 THEN mn0 - 1 ELSE mn0
        sc2 == IF sc1 < 0 THEN sc1 + SPM ELSE sc1
    IN  IF mn2 < 0 THEN [ok |-> FALSE, v |-> ZeroTime]
        ELSE [ok |-> TRUE, v |-> <<mn2, sc2, fr1>>]

----------------------------------------------------------------------------
(* Values shared by the records of the model *)

NoErr  == "none"
None   == "None"
NoLine == [k |-> "noline", key |-> "", val |-> "", num |-> 0, time |-> ZeroTime]

\* an attribute holding a _TrackTime: present, or removed with del
Attr(t)  == [set |-> TRUE, v |-> t]
Deleted  == [set |-> FALSE, v |-> ZeroTime]
\* TrackIndex.len_ is a _TrackTime, the empty string, or removed with del
LenTime(t) == [st |-> "time", v |-> t]
LenEmpty   == [st |-> "str", v |-> ZeroTime]
LenDeleted == [st |-> "del", v |-> ZeroTime]

\* TrackIndex.PREAUDIO, AUDIO, INDEX, START = range(4)
PREAUDIO == 0
AUDIO    == 1
INDEX    == 2
START    == 3

----------------------------------------------------------------------------
(* CUE lines.  A line is held as the record of the fields its text shows;  *)
(* the regular expressions of CueParser are modelled on those fields.      *)

Line(k, key, val, num, time) ==
    [k |-> k, key |-> key, val |-> val, num |-> num, time |-> time]

RemCommentLine     == Line("remcomment", "COMMENT", "some comment", 0, ZeroTime)
RemLine(key, val)  == Line("rem", key, val, 0, ZeroTime)
QuoteLine(key, val) == Line("quote", key, val, 0, ZeroTime)
CatalogLine        == Line("catalog", "CATALOG", "1234567890123", 0, ZeroTime)
FileLine(name)     == Line("file", "FILE", name, 0, ZeroTime)
TrackLine(n, mode) == Line("track", "TRACK", mode, n, ZeroTime)
IndexLine(n, t)    == Line("index", "INDEX", "", n, t)
NamedLine(key, val) == Line("named", key, val, 0, ZeroTime)
FlagLine(val)      == Line("flag", "FLAGS", val, 0, ZeroTime)
BadLine            == Line("bad", "BAD", "MATCH LINE", 0, ZeroTime)

\* rem_regex = ^\s*REM\s+COMMENT
IsRemComment(l) == l.k = "remcomment"

\* _RegexStore.match with _part_search (_FILE_REGEX + _TRACK_REGEX):
\* the key of the matching pattern, "" when no pattern matches
PartMatch(l) ==
    IF l.k \in {"file", "track"} THEN l.k ELSE ""

\* _RegexStore.match with _disc_search (_FILE_REGEX + _DISC_REGEX)
DiscMatch(l) ==
    IF l.k \in {"file", "rem", "quote", "catalog"} THEN l.k ELSE ""

\* _RegexStore.match with _tinfo_search
\* (_FILE_REGEX + _TINFO_REGEX + _TRACK_REGEX)
TinfoMatch(l) ==
    CASE l.k \in {"file", "track", "index", "flag"} -> l.k
      [] l.k = "quote" /\ l.key \in {"PERFORMER", "TITLE"} -> "quote"
      [] l.k = "named" /\ l.key \in {"ISRC", "PREGAP"} -> "named"
      [] OTHER -> ""

\* str.lower() on the keys that occur in the model
Lower(key) ==
    CASE key = "GENRE" -> "genre"
      [] key = "DATE" -> "date"
      [] key = "DISCID" -> "discid"
      [] key = "CATALOG" -> "catalog"
      [] key = "PERFORMER" -> "performer"
      [] key = "TITLE" -> "title"
      [] key = "ISRC" -> "isrc"
      [] key = "PREGAP" -> "pregap"
      [] key = "_MODE" -> "_mode"
      [] key = "MUNG" -> "mung"
      [] key = "Genre" -> "genre"
      [] key = "title" -> "title"
      [] key = "FOO" -> "foo"
      [] OTHER -> key

----------------------------------------------------------------------------
(* WAV files: os.path.exists, wave.open and WavFileCache *)

\* names a FILE line of the model can carry
FileNames == {"a.wav", "b.wav"}
\* WAV files the working directory can hold
DiskFiles == {"a.wav", "ab.wav", "xa.wav"}

\* os.walk names the files of the working directory with a leading "./"
WalkPath(f) == "./" \o f

\* os.path.exists
PathExists(d, p) == p \in d \/ \E f \in d : p = WalkPath(f)

\* length in frames of the audio of an existing WAV file (wave.open)
WavFrames(p) ==
    IF p \in {"a.wav", "./a.wav"} THEN FPS ELSE 5 * FPS

\* file_regex.search(f): the pattern sep .* fn .* \.wav$ built from the
\* base name of `name`, searched in the cached path f
FuzzyMatch(name, f) ==
    \/ name = "a.wav" /\ f \in {"./a.wav", "./ab.wav", "./xa.wav"}
    \/ name = "b.wav" /\ f = "./ab.wav"

\* WavFileCache._init_cache
InitCache(d) == [init |-> TRUE, data |-> {WalkPath(f) : f \in d}]

NoCache == [init |-> FALSE, data |-> {}]

\* WavFileCache._get_cache
GetCache(c, d) == IF c.init THEN c ELSE InitCache(d)

\* WavFileCache.lookup: [ok, name, cache]; ok = FALSE is FileNotFoundError
WavLookup(c, d, name) ==
    IF PathExists(d, name)
    THEN [ok |-> TRUE, name |-> name, cache |-> c]
    ELSE LET c2 == GetCache(c, d)
             m  == {f \in c2.data : FuzzyMatch(name, f)}
         IN  IF Cardinality(m) = 1
             THEN [ok |-> TRUE, name |-> CHOOSE f \in m : TRUE, cache |-> c2]
             ELSE [ok |-> FALSE, name |-> name, cache |-> c2]

\* _lookup_file_name with a bare raise in the handler, whatever _find_wav is
LookupFileNameAlwaysRaises(fmap, c, d, fw, name) ==
    IF name \in DOMAIN fmap
    THEN [ok |-> TRUE, name |-> fmap[name], fmap |-> fmap, cache |-> c]
    ELSE LET r == WavLookup(c, d, name)
         IN  IF ~r.ok
             THEN [ok |-> FALSE, name |-> name, fmap |-> fmap, cache |-> r.cache]
             ELSE [ok |-> TRUE, name |-> r.name,
                   fmap |-> [n \in (DOMAIN fmap) \cup {name} |->
                               IF n = name THEN r.name ELSE fmap[n]],
                   cache |-> r.cache]

\* _Parser._lookup_file_name: [ok, name, fmap, cache]
LookupFileName(fmap, c, d, fw, name) ==
    IF name \in DOMAIN fmap
    THEN [ok |-> TRUE, name |-> fmap[name], fmap |-> fmap, cache |-> c]
    ELSE LET r == WavLookup(c, d, name)
             onDisk == IF r.ok THEN r.name ELSE name
         IN  IF ~r.ok /\ fw
             THEN [ok |-> FALSE, name |-> name, fmap |-> fmap, cache |-> r.cache]
             ELSE [ok |-> TRUE, name |-> onDisk,
                   fmap |-> [n \in (DOMAIN fmap) \cup {name} |->
                               IF n = name THEN onDisk ELSE fmap[n]],
                   cache |-> r.cache]

----------------------------------------------------------------------------
(* Disc, Track and TrackIndex objects *)

\* Disc(): the class attributes; "mung" stands for the bound method
NewDisc ==
    [catalog |-> None, date |-> None, discid |-> None, genre |-> None,
     performer |-> None, title |-> None, _mode |-> "CD_DA", mung |-> "method"]

\* the names hasattr(disc_, key) finds among the lower-cased keys of the model
DiscAttrs == DOMAIN NewDisc

\* self._disc = None
NoDisc == <<>>

\* Disc.setMultisession
SetMultisession(d) == [d EXCEPT !._mode = "CD_ROM_XA"]

\* Track(num)
NewTrack(num) ==
    [num |-> num, is_data |-> FALSE, indexes |-> <<>>, title |-> None,
     performer |-> None, isrc |-> None, pregap |-> None,
     dcp |-> FALSE, four_ch |-> FALSE, pre |-> FALSE]

\* TrackIndex._file_len: [known, v]; known = FALSE is the returned None
FileLen(d, file_) ==
    IF ~PathExists(d, file_) THEN [known |-> FALSE, v |-> ZeroTime]
    ELSE [known |-> TRUE, v |-> TimeFromFrames(WavFrames(file_))]

\* the subtraction TrackIndex.__init__ makes: the set of its operand pairs
NewIndexSubs(d, time, file_) ==
    IF FileLen(d, file_).known THEN {<<FileLen(d, file_).v, time>>} ELSE {}

\* TrackIndex(num, time, file_): [ok, idx]; ok = FALSE is UnderflowError
NewIndex(d, num, time, file_) ==
    LET fl == FileLen(d, file_)
        r  == TimeSub(fl.v, time)
        ln == IF fl.known THEN LenTime(r.v) ELSE LenEmpty
    IN  [ok  |-> ~fl.known \/ r.ok,
         idx |-> [num |-> num, file_ |-> file_, time |-> Attr(time),
                  len_ |-> ln, cmd |-> AUDIO]]

----------------------------------------------------------------------------
(* CueParser: the three scans *)

\* self._cue: the lines of fh that rem_regex does not match
StripComments(lines) == SelectSeq(lines, LAMBDA l : ~IsRemComment(l))

\* 0-based line numbers of the lines of c whose _part_search key is k
PartLines(c, k) ==
    LET F[i \in 0..Len(c)] ==
          IF i = 0 THEN <<>>
          ELSE IF PartMatch(c[i]) = k THEN Append(F[i-1], i - 1) ELSE F[i-1]
    IN  F[Len(c)]

\* map(_lookup_file_name, names): [ok, names, fmap, cache], left to right
RECURSIVE LookupAll(_, _, _, _, _, _, _)
LookupAll(c, names, i, acc, fmap, cache, env) ==
    IF i > Len(names)
    THEN [ok |-> TRUE, names |-> acc, fmap |-> fmap, cache |-> cache]
    ELSE LET r == LookupFileName(fmap, cache, env.disk, env.findWav, names[i])
         IN  IF ~r.ok
             THEN [ok |-> FALSE, names |-> acc, fmap |-> r.fmap, cache |-> r.cache]
             ELSE LookupAll(c, names, i + 1, Append(acc, r.name),
                            r.fmap, r.cache, env)

\* _active_file without reversed(): the first FILE line above the TRACK
\* line
ActiveFileFirst(flines, tlines, trk_idx) ==
    LET tline == tlines[trk_idx + 1]
        above == {j \in 1..Len(flines) : flines[j][1] < tline}
    IN  IF above = {} THEN [ok |-> FALSE, name |-> ""]
        ELSE [ok |-> TRUE,
              name |-> flines[CHOOSE j \in above : \A m \in above : j <= m][2]]

\* CueParser._active_file: [ok, name]; ok = FALSE is the StopIteration of
\* next() when no FILE line lies above the TRACK line
ActiveFile(flines, tlines, trk_idx) ==
    LET tline == tlines[trk_idx + 1]
        above == {j \in 1..Len(flines) : flines[j][1] < tline}
    IN  IF above = {} THEN [ok |-> FALSE, name |-> ""]
        ELSE [ok |-> TRUE,
              name |-> flines[CHOOSE j \in above : \A m \in above : m <= j][2]]

\* the loop of _parse_disc over the matches that are not 'file' matches:
\* [ok, disc]; ok = FALSE is the raise in the else branch
RECURSIVE ParseDiscLines(_, _, _)
ParseDiscLines(lines, i, d) ==
    IF i > Len(lines) THEN [ok |-> TRUE, disc |-> d]
    ELSE IF DiscMatch(lines[i]) = "file" THEN ParseDiscLines(lines, i + 1, d)
    ELSE LET key == Lower(lines[i].key)
         IN  IF key \in DiscAttrs
             THEN ParseDiscLines(lines, i + 1, [d EXCEPT ![key] = lines[i].val])
             ELSE [ok |-> FALSE, disc |-> d]

\* one turn of the for loop of _parse_track on a matched line
ParseTrackLine(st, l, env) ==
    LET key == TinfoMatch(l)
    IN  CASE key = "track" ->
               IF st.trk.num # l.num THEN [st EXCEPT !.err = "AssertionError"]
               ELSE IF l.val # "AUDIO"
               THEN [st EXCEPT !.trk.is_data = TRUE,
                               !.disc = SetMultisession(st.disc)]
               ELSE st
          [] key = "file" ->
               LET r == LookupFileName(st.fmap, st.cache, env.disk,
                                       env.findWav, l.val)
               IN  IF ~r.ok
                   THEN [st EXCEPT !.err = "FileNotFoundError",
                                   !.cache = r.cache]
                   ELSE [st EXCEPT !.file = r.name, !.fmap = r.fmap,
                                   !.cache = r.cache]
          [] key = "index" ->
               LET r == NewIndex(env.disk, l.num, l.time, st.file)
                   s == st.subs \cup NewIndexSubs(env.disk, l.time, st.file)
               IN  IF ~r.ok
                   THEN [st EXCEPT !.err = "UnderflowError", !.subs = s]
                   ELSE [st EXCEPT !.trk.indexes = Append(@, r.idx),
                                   !.subs = s]
          [] key \in {"quote", "named"} ->
               \* title, performer, isrc and pregap are attributes of Track
               [st EXCEPT !.trk[Lower(l.key)] = l.val]
          [] key = "flag" ->
               [st EXCEPT !.trk.dcp = @ \/ l.val = "DCP",
                          !.trk.four_ch = @ \/ l.val = "4CH",
                          !.trk.pre = @ \/ l.val = "PRE"]
          [] OTHER -> [st EXCEPT !.err = "NameError"]

RECURSIVE ParseTrackLines(_, _, _, _)
ParseTrackLines(lines, i, st, env) ==
    IF i > Len(lines) \/ st.err # NoErr THEN st
    ELSE ParseTrackLines(lines, i + 1, ParseTrackLine(st, lines[i], env), env)

\* the slice of self._cue that _parse_track(num) reads
TrackSlice(c, tlines, num) ==
    LET first == tlines[num + 1] + 1
        last  == IF num + 1 < Len(tlines) THEN tlines[num + 2] ELSE Len(c)
    IN  SubSeq(c, first, last)

----------------------------------------------------------------------------
(* The rewrite pass: Track.mung and TrackIndex.mung *)

\* a - b on two time attributes: [err, v].  A removed attribute reads as
\* the class attribute None: None - b is a TypeError, and a - None fails in
\* __sub__ with AttributeError.
AttrSub(a, b) ==
    IF ~a.set THEN [err |-> "TypeError", v |-> ZeroTime]
    ELSE IF ~b.set THEN [err |-> "AttributeError", v |-> ZeroTime]
    ELSE LET r == TimeSub(a.v, b.v)
         IN  [err |-> IF r.ok THEN NoErr ELSE "UnderflowError", v |-> r.v]

TruncateToEndTime(idx, hasTrk2, trk2) ==
    IF ~(hasTrk2 /\ idx.cmd = AUDIO) THEN [err |-> NoErr, idx |-> idx, subs |-> {}]
    ELSE IF trk2.indexes = <<>> THEN [err |-> "IndexError", idx |-> idx, subs |-> {}]
    ELSE IF idx.file_ # trk2.indexes[1].file_
    THEN [err |-> NoErr, idx |-> idx, subs |-> {}]
    ELSE LET end_time == trk2.indexes[1].time
         IN  [err  |-> NoErr,
              idx  |-> [idx EXCEPT !.len_ = LenTime(end_time.v)],
              subs |-> {}]

\* the truncation without its test of the command of the index
TruncateAnyCmd(idx, hasTrk2, trk2) ==
    IF ~hasTrk2 THEN [err |-> NoErr, idx |-> idx, subs |-> {}]
    ELSE IF trk2.indexes = <<>> THEN [err |-> "IndexError", idx |-> idx, subs |-> {}]
    ELSE IF idx.file_ # trk2.indexes[1].file_
    THEN [err |-> NoErr, idx |-> idx, subs |-> {}]
    ELSE LET end_time == trk2.indexes[1].time
             r == AttrSub(end_time, idx.time)
         IN  [err  |-> r.err,
              idx  |-> [idx EXCEPT !.len_ = LenTime(r.v)],
              subs |-> IF end_time.set /\ idx.time.set
                       THEN {<<end_time.v, idx.time.v>>} ELSE {}]

\* the part of one turn of the loop of Track.mung that precedes idx.mung:
\* [err, idx, subs]
Truncate(idx, hasTrk2, trk2) ==
    IF ~(hasTrk2 /\ idx.cmd = AUDIO) THEN [err |-> NoErr, idx |-> idx, subs |-> {}]
    ELSE IF trk2.indexes = <<>> THEN [err |-> "IndexError", idx |-> idx, subs |-> {}]
    ELSE IF idx.file_ # trk2.indexes[1].file_
    THEN [err |-> NoErr, idx |-> idx, subs |-> {}]
    ELSE LET end_time == trk2.indexes[1].time
             r == AttrSub(end_time, idx.time)
         IN  [err  |-> r.err,
              idx  |-> [idx EXCEPT !.len_ = LenTime(r.v)],
              subs |-> IF end_time.set /\ idx.time.set
                       THEN {<<end_time.v, idx.time.v>>} ELSE {}]

\* the first rule without its comparison of the two files
PregapOnlyAnyFile(self, hasIdx2, idx2) ==
    IF self.num = 0 /\ hasIdx2
    THEN [self EXCEPT !.cmd = PREAUDIO]
    ELSE self

\* the first rule, giving the pregap the index number 1 as well
PregapOnlyRenumbers(self, hasIdx2, idx2) ==
    IF self.num = 0 /\ hasIdx2 /\ self.file_ # idx2.file_
    THEN [self EXCEPT !.cmd = PREAUDIO, !.num = 1]
    ELSE self

\* TrackIndex.mung, first rule: the new value of self
PregapOnly(self, hasIdx2, idx2) ==
    IF self.num = 0 /\ hasIdx2 /\ self.file_ # idx2.file_
    THEN [self EXCEPT !.cmd = PREAUDIO]
    ELSE self

\* TrackIndex.mung, second rule: [err, idx2, subs], the new value of idx2
SharedFile(self, hasIdx2, idx2) ==
    IF hasIdx2 /\ self.file_ = idx2.file_
    THEN IF self.num = 0
         THEN LET r == AttrSub(idx2.time, self.time)
              IN  [err  |-> r.err,
                   idx2 |-> [idx2 EXCEPT !.cmd = START, !.len_ = LenTime(r.v),
                                         !.time = Deleted],
                   subs |-> IF idx2.time.set /\ self.time.set
                            THEN {<<idx2.time.v, self.time.v>>} ELSE {}]
         ELSE [err |-> NoErr,
               idx2 |-> [idx2 EXCEPT !.cmd = INDEX, !.len_ = LenDeleted],
               subs |-> {}]
    ELSE [err |-> NoErr, idx2 |-> idx2, subs |-> {}]

\* one turn of the loop in which the second rule rewrites the index itself
\* in place of its successor
MungPairRewritesSelf(trks, t, i) ==
    LET trk     == trks[t]
        hasTrk2 == t < Len(trks)
        trk2    == IF hasTrk2 THEN trks[t + 1] ELSE trk
        hasIdx2 == i < Len(trk.indexes)
        idx2    == IF hasIdx2 THEN trk.indexes[i + 1] ELSE trk.indexes[i]
        tr      == Truncate(trk.indexes[i], hasTrk2, trk2)
        self    == PregapOnly(tr.idx, hasIdx2, idx2)
        sf      == SharedFile(self, hasIdx2, idx2)
        rew     == IF hasIdx2 /\ self.file_ = idx2.file_
                   THEN [self EXCEPT !.cmd = sf.idx2.cmd, !.len_ = sf.idx2.len_,
                                     !.time = sf.idx2.time]
                   ELSE self
        newIdxs == [j \in 1..Len(trk.indexes) |->
                      IF j = i THEN rew ELSE trk.indexes[j]]
    IN  IF tr.err # NoErr
        THEN [err |-> tr.err, tracks |-> trks, subs |-> tr.subs]
        ELSE [err    |-> sf.err,
              tracks |-> [trks EXCEPT ![t].indexes = newIdxs],
              subs   |-> tr.subs \cup sf.subs]

\* one turn of the loop with islice(self.indexes, 0, None) as the second
\* list of the map: every index is paired with itself
MungPairSelfPaired(trks, t, i) ==
    LET trk     == trks[t]
        hasTrk2 == t < Len(trks)
        trk2    == IF hasTrk2 THEN trks[t + 1] ELSE trk
        tr      == Truncate(trk.indexes[i], hasTrk2, trk2)
        self    == PregapOnly(tr.idx, TRUE, tr.idx)
        sf      == SharedFile(self, TRUE, self)
        newIdxs == [j \in 1..Len(trk.indexes) |->
                      IF j = i THEN sf.idx2 ELSE trk.indexes[j]]
    IN  IF tr.err # NoErr
        THEN [err |-> tr.err, tracks |-> trks, subs |-> tr.subs]
        ELSE [err    |-> sf.err,
              tracks |-> [trks EXCEPT ![t].indexes = newIdxs],
              subs   |-> tr.subs \cup sf.subs]

\* one turn of the loop of Track.mung, on the index at position i of the
\* track at position t: [err, tracks, subs]
MungPair(trks, t, i) ==
    LET trk     == trks[t]
        hasTrk2 == t < Len(trks)
        trk2    == IF hasTrk2 THEN trks[t + 1] ELSE trk
        hasIdx2 == i < Len(trk.indexes)
        idx2    == IF hasIdx2 THEN trk.indexes[i + 1] ELSE trk.indexes[i]
        tr      == Truncate(trk.indexes[i], hasTrk2, trk2)
        self    == PregapOnly(tr.idx, hasIdx2, idx2)
        sf      == SharedFile(self, hasIdx2, idx2)
        newIdxs == [j \in 1..Len(trk.indexes) |->
                      IF j = i THEN self
                      ELSE IF hasIdx2 /\ j = i + 1 THEN sf.idx2
                      ELSE trk.indexes[j]]
    IN  IF tr.err # NoErr
        THEN [err |-> tr.err, tracks |-> trks, subs |-> tr.subs]
        ELSE [err    |-> sf.err,
              tracks |-> [trks EXCEPT ![t].indexes = newIdxs],
              subs   |-> tr.subs \cup sf.subs]

\* the position of the next turn of the loops of the rewrite pass at or
\* after (t, i): tracks without a further index are passed over;
\* t = Len(trks) + 1 when the pass is over
RECURSIVE NextPos(_, _, _)
NextPos(trks, t, i) ==
    IF t > Len(trks) THEN <<t, 1>>
    ELSE IF i <= Len(trks[t].indexes) THEN <<t, i>>
    ELSE NextPos(trks, t + 1, 1)

----------------------------------------------------------------------------
(* The formatter: __str__ of _TrackTime, TrackIndex, Track, Disc; getToc *)

Digit == <<"0", "1", "2", "3", "4", "5", "6", "7", "8", "9">>

RECURSIVE NatStr(_)
NatStr(n) ==
    IF n < 10 THEN Digit[n + 1] ELSE NatStr(n \div 10) \o Digit[(n % 10) + 1]

\* '%02d' % n
Pad2(n) ==
    IF n < 0 THEN "-" \o NatStr(-n)
    ELSE IF n < 10 THEN "0" \o NatStr(n)
    ELSE NatStr(n)

\* _TrackTime.__repr__
TimeRepr(t) == Pad2(t[1]) \o ":" \o Pad2(t[2]) \o ":" \o Pad2(t[3])

\* Strings read character by character are sequences of one-character
\* strings.

\* the decimal digits of n >= 0
RECURSIVE NatChars(_)
NatChars(n) ==
    IF n < 10 THEN <<Digit[n + 1]>>
    ELSE Append(NatChars(n \div 10), Digit[(n % 10) + 1])

\* '%02d' % n, character by character
Chars02d(n) ==
    IF n < 0 THEN <<"-">> \o NatChars(-n)
    ELSE IF n < 10 THEN <<"0">> \o NatChars(n)
    ELSE NatChars(n)

\* _TrackTime.__repr__, character by character
TimeReprChars(t) ==
    Chars02d(t[1]) \o <<":">> \o Chars02d(t[2]) \o <<":">> \o Chars02d(t[3])

\* str.split(':'): the fields between the colons
RECURSIVE SplitColon(_, _, _)
SplitColon(chars, i, field) ==
    IF i > Len(chars) THEN <<field>>
    ELSE IF chars[i] = ":" THEN <<field>> \o SplitColon(chars, i + 1, <<>>)
    ELSE SplitColon(chars, i + 1, Append(field, chars[i]))

\* int(x) on a string of decimal digits
RECURSIVE IntOf(_)
IntOf(chars) ==
    IF chars = <<>> THEN 0
    ELSE 10 * IntOf(SubSeq(chars, 1, Len(chars) - 1))
         + (CHOOSE d \in 0..9 : Digit[d + 1] = chars[Len(chars)])

\* __init__ with a string argument that also reduces the fields to their
\* ranges
TimeFromStringNormalized(chars) ==
    LET f == SplitColon(chars, 1, <<>>)
    IN  TimeFromFrames((IntOf(f[1]) * SPM + IntOf(f[2])) * FPS + IntOf(f[3]))

\* _TrackTime.__init__ with a string argument:
\* tuple(int(x) for x in arg.split(':'))
TimeFromString(chars) ==
    LET f == SplitColon(chars, 1, <<>>)
    IN  [i \in 1..Len(f) |-> IntOf(f[i])]

\* a line of the TOC: its command word and its arguments as printed
TocLine(k, a, b, c) == [k |-> k, a |-> a, b |-> b, c |-> c]
EmptyLine == TocLine("", "", "", "")

\* '%s' of TrackIndex.len_
LenRepr(l) == IF l.st = "time" THEN TimeRepr(l.v) ELSE ""

\* TrackIndex.__str__ split at the newlines: [ok, lines]; ok = FALSE is the
\* KeyError of '%(time)s' or '%(len_)s' on an attribute removed with del
IndexStr(idx) ==
    IF idx.cmd \in {AUDIO, PREAUDIO}
    THEN IF ~idx.time.set \/ idx.len_.st = "del"
         THEN [ok |-> FALSE, lines |-> <<>>]
         ELSE [ok |-> TRUE,
               lines |-> <<TocLine("AUDIOFILE", idx.file_, TimeRepr(idx.time.v),
                                   LenRepr(idx.len_))>>
                         \o (IF idx.cmd = PREAUDIO
                             THEN <<TocLine("START", "", "", "")>> ELSE <<>>)]
    ELSE IF idx.cmd = INDEX
    THEN IF ~idx.time.set THEN [ok |-> FALSE, lines |-> <<>>]
         ELSE [ok |-> TRUE,
               lines |-> <<TocLine("INDEX", "", TimeRepr(idx.time.v), "")>>]
    ELSE IF idx.len_.st = "del" THEN [ok |-> FALSE, lines |-> <<>>]
         ELSE [ok |-> TRUE,
               lines |-> <<TocLine("START", "", "", LenRepr(idx.len_))>>]

RECURSIVE IndexesStr(_, _)
IndexesStr(idxs, i) ==
    IF i > Len(idxs) THEN [ok |-> TRUE, lines |-> <<>>]
    ELSE LET h == IndexStr(idxs[i])
             r == IndexesStr(idxs, i + 1)
         IN  [ok |-> h.ok /\ r.ok, lines |-> h.lines \o r.lines]

Opt(cond, line) == IF cond THEN <<line>> ELSE <<>>

\* str(trk).split('\n'): [ok, lines].  The empty string of a data track
\* splits into one empty line.
TrackStr(trk) ==
    LET ix == IndexesStr(trk.indexes, 1)
    IN  IF trk.is_data THEN [ok |-> TRUE, lines |-> <<EmptyLine>>]
        ELSE [ok |-> ix.ok,
              lines |-> <<EmptyLine,
                          TocLine("//Track", NatStr(trk.num), "", ""),
                          TocLine("TRACK AUDIO", "", "", "")>>
                        \o Opt(trk.isrc # None, TocLine("ISRC", trk.isrc, "", ""))
                        \o Opt(trk.dcp, TocLine("COPY", "", "", ""))
                        \o Opt(trk.four_ch, TocLine("FOUR_CHANNEL_AUDIO", "", "", ""))
                        \o Opt(trk.pre, TocLine("PRE_EMPHASIS", "", "", ""))
                        \o <<TocLine("CD_TEXT { LANGUAGE 0 {", "", "", "")>>
                        \o Opt(trk.title # None, TocLine("TITLE", trk.title, "", ""))
                        \o Opt(trk.performer # None,
                               TocLine("PERFORMER", trk.performer, "", ""))
                        \o <<TocLine("}}", "", "", "")>>
                        \o Opt(trk.pregap # None, TocLine("PREGAP", trk.pregap, "", ""))
                        \o ix.lines]

\* str(disc).split('\n')
DiscStr(d) ==
    <<TocLine(d._mode, "", "", "")>>
    \o Opt(d.catalog # None, TocLine("CATALOG", d.catalog, "", ""))
    \o <<TocLine("CD_TEXT { LANGUAGE_MAP { 0:EN }", "", "", ""),
         TocLine("LANGUAGE 0 {", "", "", "")>>
    \o Opt(d.title # None, TocLine("TITLE", d.title, "", ""))
    \o Opt(d.performer # None, TocLine("PERFORMER", d.performer, "", ""))
    \o Opt(d.discid # None, TocLine("DISC_ID", d.discid, "", ""))
    \o <<TocLine("}}", "", "", "")>>

RECURSIVE TracksStr(_, _)
TracksStr(trks, i) ==
    IF i > Len(trks) THEN [ok |-> TRUE, lines |-> <<>>]
    ELSE LET h == TrackStr(trks[i])
         IN  IF ~h.ok THEN [ok |-> FALSE, lines |-> <<>>]
             ELSE LET r == TracksStr(trks, i + 1)
                  IN  [ok |-> r.ok, lines |-> h.lines \o r.lines]

----------------------------------------------------------------------------
(* The CUE sheets of the model.  The input is read line by line; the lines *)
(* are drawn from the sets below, and a sheet is admitted when it is a     *)
(* track layout, a free-form sheet or a one-track sheet.                   *)

IdxNums  == {0, 1}
\* the p-th INDEX line of a sheet whose index times ascend starts at
\* second p - 1
SeqTime(p) == <<0, p - 1, 0>>

IdxTimes == {ZeroTime, <<0, 2, 0>>} \cup {SeqTime(p) : p \in 1..MaxIdx}

\* the lines a track layout is made of
LayoutLines ==
    {FileLine(n) : n \in FileNames}
    \cup {TrackLine(n, "AUDIO") : n \in 1..MaxTracks}
    \cup {IndexLine(n, t) : n \in IdxNums, t \in IdxTimes}

\* the lines a free-form sheet is made of
FreeLines ==
    {RemCommentLine, RemLine("GENRE", "Rock"), QuoteLine("TITLE", "album"),
     FileLine("a.wav"), TrackLine(1, "AUDIO"), TrackLine(1, "MODE1/2352"),
     TrackLine(2, "AUDIO"), IndexLine(1, ZeroTime), BadLine}

CountKind(s, k) == Cardinality({i \in 1..Len(s) : s[i].k = k})

\* a track layout: a FILE line, then TRACK lines numbered from 1, INDEX
\* lines below a TRACK line, and a FILE line where the file changes, above
\* the INDEX line it is for or above the TRACK line of that INDEX line
LayoutOk(s) ==
    /\ \A i \in 1..Len(s) : s[i] \in LayoutLines
    /\ Len(s) > 0 => s[1].k = "file"
    /\ CountKind(s, "track") <= MaxTracks
    /\ CountKind(s, "index") <= MaxIdx
    /\ \A i \in 1..Len(s) :
         /\ s[i].k = "track" => s[i].num = CountKind(SubSeq(s, 1, i), "track")
         /\ s[i].k = "index" => CountKind(SubSeq(s, 1, i), "track") > 0
         /\ (s[i].k = "file" /\ i > 1) =>
              /\ s[i - 1].k # "file"
              /\ \E j \in 1..(i - 1) :
                   /\ s[j].k = "file" /\ s[j].val # s[i].val
                   /\ \A m \in (j + 1)..(i - 1) : s[m].k # "file"
              /\ i + 1 <= Len(s) => s[i + 1].k \in {"index", "track"}
              /\ (i + 2 <= Len(s) /\ s[i + 1].k = "track") => s[i + 2].k = "index"

\* the index times of the layout ascend by one second from line to line
AscendingTimes(s) ==
    \A i \in 1..Len(s) :
       s[i].k = "index" => s[i].time = SeqTime(CountKind(SubSeq(s, 1, i), "index"))

\* the index times of the layout are free
FreeTimes(s) ==
    /\ CountKind(s, "index") <= MaxIdxFree
    /\ \A i \in 1..Len(s) : s[i].k = "index" => s[i].time \in {ZeroTime, <<0, 2, 0>>}

\* no FILE line of the layout is left without its INDEX line
LayoutComplete(s) ==
    \A i \in 2..Len(s) :
       s[i].k = "file" =>
          /\ i + 1 <= Len(s)
          /\ s[i + 1].k = "track" => i + 2 <= Len(s)

\* the disc-info lines of a sheet
DiscLines ==
    {RemLine("GENRE", "Rock"), RemLine("Genre", "Pop"), QuoteLine("TITLE", "album"),
     QuoteLine("title", "lower"), CatalogLine, RemLine("FOO", "bar"),
     QuoteLine("FOO", "bar"), RemLine("a", "general comment"),
     RemLine("_MODE", "x"), RemLine("MUNG", "x")}

\* the one-track sheet below the disc-info lines
OneTrack == <<FileLine("a.wav"), TrackLine(1, "AUDIO"), IndexLine(1, ZeroTime)>>

\* disc-info lines, then the lines of OneTrack
DiscOk(s) ==
    \E n \in 0..MaxDiscLines :
       /\ n <= Len(s)
       /\ Len(s) <= n + Len(OneTrack)
       /\ \A i \in 1..n : s[i] \in DiscLines
       /\ \A i \in (n + 1)..Len(s) : s[i] = OneTrack[i - n]

FreeOk(s) ==
    /\ Len(s) <= MaxLines
    /\ \A i \in 1..Len(s) : s[i] \in FreeLines

LookupOk(s) ==
    /\ Len(s) <= 3
    /\ Len(s) >= 1 => s[1].k = "file"
    /\ Len(s) >= 2 => s[2] = TrackLine(1, "AUDIO")
    /\ Len(s) >= 3 => s[3] = IndexLine(1, ZeroTime)

\* the sheets read under the option fw and the directory content d
Admitted(s, fw, d) ==
    \/ LayoutOk(s) /\ AscendingTimes(s) /\ ~fw /\ d = {}
    \/ LayoutOk(s) /\ FreeTimes(s) /\ ~fw /\ d = {"a.wav", "ab.wav"}
    \/ FreeOk(s) /\ ((~fw /\ d = {}) \/ (fw /\ d = {"a.wav"}))
    \/ LookupOk(s)
    \/ DiscOk(s) /\ ~fw /\ d = {}

\* the sheet may end after the lines s
Complete(s) == LayoutOk(s) => LayoutComplete(s)

AllLines == LayoutLines \cup FreeLines \cup DiscLines

----------------------------------------------------------------------------
(* The conversion *)

Env == [disk |-> disk, findWav |-> findWav]

InitParse ==
    /\ err = NoErr
    /\ errLine = NoLine
    /\ cue = <<>>
    /\ fileMap = <<>>
    /\ wavCache = NoCache
    /\ files = <<>>
    /\ fileLines = <<>>
    /\ trackLines = <<>>
    /\ disc = NoDisc
    /\ tracks = <<>>
    /\ built = <<>>
    /\ ti = 1
    /\ ii = 1
    /\ subs = {}
    /\ toc = <<>>

\* cd_obj before the parser has returned
NoParseData == [bound |-> FALSE]

\* the command-line variables of a run that does not go through main()
InitCmdIdle ==
    /\ opt = <<>>
    /\ cd = NoParseData
    /\ stderr = <<>>
    /\ tocOut = <<>>
    /\ exitCode = "none"

\* the variables of the cache under test when no cache is under test
InitWavIdle ==
    /\ wdata = [set |-> FALSE, v |-> {}]
    /\ wscans = 0
    /\ wcalls = 0
    /\ wres = <<>>

\* no value bound: None as an attribute, a keyword argument left out
NoArg == [set |-> FALSE]

\* the variables of the state machine when no state machine is in use
InitFsmIdle ==
    /\ fsmRegex = NoArg
    /\ fsmHandlers = NoArg
    /\ fsmArgs = [regex_obj |-> NoArg, match_handlers |-> NoArg]
    /\ fsmLines = <<>>
    /\ fsmPos = 0
    /\ fsmLog = <<>>

\* the variables of the progress bar when no progress bar is in use
InitBarIdle ==
    /\ barMax = 0
    /\ barSize = 0
    /\ barOther = 0
    /\ barAdds = 0

Init ==
    /\ InitParse
    /\ pc = "init"
    /\ fh = <<>>
    /\ findWav \in BOOLEAN
    /\ disk \in SUBSET DiskFiles
    /\ tx = ZeroTime /\ ty = ZeroTime /\ tn = 0 /\ tres = <<>>
    /\ InitCmdIdle
    /\ InitWavIdle
    /\ InitFsmIdle
    /\ InitBarIdle

\* the conversion ends with the exception e
Fail(e) ==
    /\ pc' = "failed"
    /\ err' = e

\* CueParser.__init__, line 299: one turn of the comprehension over fh;
\* a line that rem_regex matches is dropped
ReadLine ==
    /\ pc = "init"
    /\ \E l \in AllLines :
         /\ Admitted(Append(fh, l), findWav, disk)
         /\ fh' = Append(fh, l)
         /\ cue' = IF IsRemComment(l) THEN cue ELSE Append(cue, l)
    /\ UNCHANGED <<pc, err, errLine, fileMap, wavCache, files, fileLines,
                   trackLines, disc, tracks, built, ti, ii, subs, toc>>
    /\ UNCHANGED <<findWav, disk, timeVars, cmdVars, wavVars, libVars>>

EmptyCheckMissing(c) == FALSE

\* CueParser.__init__, line 300: not len(self._cue)
EmptyCheck(c) == Len(c) = 0

\* CueParser.__init__, lines 300-301: fh is exhausted
ReadCue ==
    /\ pc = "init"
    /\ Complete(fh)
    /\ IF EmptyCheck(cue) THEN Fail("EmptyCueData")
       ELSE pc' = "lookup" /\ err' = err
    /\ UNCHANGED <<errLine, cue, fileMap, wavCache, files, fileLines,
                   trackLines, disc, tracks, built, ti, ii, subs, toc>>
    /\ UNCHANGED <<envVars, timeVars, cmdVars, wavVars, libVars>>

\* CueParser._build_lookup_tbl
BuildLookupTbl ==
    /\ pc = "lookup"
    /\ LET flns  == PartLines(cue, "file")
           names == [j \in 1..Len(flns) |-> cue[flns[j] + 1].val]
           r     == LookupAll(cue, names, 1, <<>>, fileMap, wavCache, Env)
       IN  /\ fileMap' = r.fmap
           /\ wavCache' = r.cache
           /\ IF ~r.ok
              THEN /\ Fail("FileNotFoundError")
                   /\ UNCHANGED <<files, fileLines, trackLines>>
              ELSE /\ files' = r.names
                   /\ fileLines' = [j \in 1..Len(flns) |-> <<flns[j], r.names[j]>>]
                   /\ trackLines' = PartLines(cue, "track")
                   /\ pc' = "disc" /\ err' = err
    /\ UNCHANGED <<errLine, cue, disc, tracks, built, ti, ii, subs, toc>>
    /\ UNCHANGED <<envVars, timeVars, cmdVars, wavVars, libVars>>

\* CueParser._parse_disc.  The two raise statements format their message
\* with the name txt, which is bound nowhere: they end in NameError.
ParseDisc ==
    /\ pc = "disc"
    /\ IF Len(trackLines) = 0
       THEN Fail("IndexError") /\ UNCHANGED <<disc, ti>>
       ELSE LET data == SubSeq(cue, 1, trackLines[1])
                r    == ParseDiscLines(data, 1, NewDisc)
            IN  IF \E i \in 1..Len(data) : DiscMatch(data[i]) = ""
                THEN Fail("NameError") /\ UNCHANGED <<disc, ti>>
                ELSE IF ~r.ok
                THEN Fail("NameError") /\ UNCHANGED <<disc, ti>>
                ELSE /\ disc' = r.disc
                     /\ ti' = 1
                     /\ pc' = "tracks" /\ err' = err
    /\ UNCHANGED <<errLine, cue, fileMap, wavCache, files, fileLines,
                   trackLines, tracks, built, ii, subs, toc>>
    /\ UNCHANGED <<envVars, timeVars, cmdVars, wavVars, libVars>>

\* CueParser._parse_track(ti - 1), one call of the map of _parse_all_tracks
ParseTrack ==
    /\ pc = "tracks"
    /\ ti <= Len(trackLines)
    /\ LET num  == ti - 1
           data == TrackSlice(cue, trackLines, num)
           af   == ActiveFile(fileLines, trackLines, num)
           st0  == [trk |-> NewTrack(num + 1), file |-> af.name, disc |-> disc,
                    fmap |-> fileMap, cache |-> wavCache, err |-> NoErr,
                    subs |-> {}]
           st   == ParseTrackLines(data, 1, st0, Env)
       IN  IF ~af.ok
           THEN /\ Fail("StopIteration")
                /\ UNCHANGED <<disc, fileMap, wavCache, tracks, ti, subs>>
           ELSE IF \E i \in 1..Len(data) : TinfoMatch(data[i]) = ""
           THEN /\ Fail("NameError")
                /\ UNCHANGED <<disc, fileMap, wavCache, tracks, ti, subs>>
           ELSE /\ disc' = st.disc
                /\ fileMap' = st.fmap
                /\ wavCache' = st.cache
                /\ subs' = st.subs
                /\ IF st.err # NoErr
                   THEN Fail(st.err) /\ UNCHANGED <<tracks, ti>>
                   ELSE /\ tracks' = Append(tracks, st.trk)
                        /\ ti' = ti + 1
                        /\ pc' = IF ti = Len(trackLines) THEN "parsed" ELSE "tracks"
                        /\ err' = err
    /\ UNCHANGED <<errLine, cue, files, fileLines, trackLines, built, ii, toc>>
    /\ UNCHANGED <<envVars, timeVars, cmdVars, wavVars, libVars>>

\* CueParser.__init__, lines 305-310: the track list is complete,
\* self._disc.mung() is called and the map over the track pairs starts
DiscMung ==
    /\ pc = "parsed"
    /\ built' = tracks
    /\ subs' = {}
    /\ IF disc.mung # "method"
       THEN Fail("TypeError") /\ UNCHANGED <<ti, ii>>
       ELSE LET pos == NextPos(tracks, 1, 1)
            IN  /\ ti' = pos[1]
                /\ ii' = pos[2]
                /\ pc' = IF pos[1] > Len(tracks) THEN "munged" ELSE "mung"
                /\ err' = err
    /\ UNCHANGED <<errLine, cue, fileMap, wavCache, files, fileLines,
                   trackLines, disc, tracks, toc>>
    /\ UNCHANGED <<envVars, timeVars, cmdVars, wavVars, libVars>>

\* Track.mung: one turn of its loop, with the call of TrackIndex.mung
MungIndex ==
    /\ pc = "mung"
    /\ LET r   == MungPair(tracks, ti, ii)
           pos == NextPos(r.tracks, ti, ii + 1)
       IN  /\ subs' = r.subs
           /\ IF r.err # NoErr
              THEN Fail(r.err) /\ UNCHANGED <<tracks, ti, ii>>
              ELSE /\ tracks' = r.tracks
                   /\ ti' = pos[1]
                   /\ ii' = pos[2]
                   /\ pc' = IF pos[1] > Len(tracks) THEN "munged" ELSE "mung"
                   /\ err' = err
    /\ UNCHANGED <<errLine, cue, fileMap, wavCache, files, fileLines,
                   trackLines, disc, built, toc>>
    /\ UNCHANGED <<envVars, timeVars, cmdVars, wavVars, libVars>>

\* _Parser.getToc
GetToc ==
    /\ pc = "munged"
    /\ LET r == TracksStr(tracks, 1)
       IN  IF ~r.ok
           THEN Fail("KeyError") /\ UNCHANGED toc
           ELSE /\ toc' = DiscStr(disc) \o r.lines
                /\ pc' = "done" /\ err' = err
    /\ UNCHANGED <<errLine, cue, fileMap, wavCache, files, fileLines,
                   trackLines, disc, tracks, built, ti, ii, subs>>
    /\ UNCHANGED <<envVars, timeVars, cmdVars, wavVars, libVars>>

Next ==
    \/ ReadLine
    \/ ReadCue
    \/ BuildLookupTbl
    \/ ParseDisc
    \/ ParseTrack
    \/ DiscMung
    \/ MungIndex
    \/ GetToc

Spec == Init /\ [][Next]_vars

----------------------------------------------------------------------------
(* _TrackTime on its own: operands drawn from bounded sets *)

\* field values at and around the borrow and range limits
MinVals == (0..MaxMin) \cup {9, 10}
SecVals == {0, 1, 10, 11, SPM - 1, SPM, 99}
FrVals  == {0, 1, 10, 11, FPS - 1, FPS, 99}

TimeOperands == {<<m, sc, fr>> : m \in MinVals, sc \in SecVals, fr \in FrVals}

\* seconds in [0,60) and frames in [0,75)
ValidTime(t) == t[1] >= 0 /\ t[2] \in 0..(SPM - 1) /\ t[3] \in 0..(FPS - 1)

NoResult == <<>>

\* frame counts up to two minutes and more
MaxFrameCount == 9100

\* triples with minutes up to 99, seconds in [0,60) and frames in [0,75)
ValidOperands ==
    {<<m, sc, fr>> : m \in MinVals \cup {99},
                     sc \in SecVals \cap (0..(SPM - 1)),
                     fr \in FrVals \cap (0..(FPS - 1))}

\* the digits the time strings are written with
TimeDigits == {"0", "1", "2", "7", "8", "9"}

\* the strings MM:SS:FF with two-digit fields
TimeStrings ==
    {<<a, b, ":", c, d, ":", e, f>> :
        a \in TimeDigits, b \in TimeDigits, c \in TimeDigits,
        d \in TimeDigits, e \in TimeDigits, f \in TimeDigits}

\* pc names the operation the operands are drawn for
InitTime ==
    /\ InitParse
    /\ fh = <<>> /\ findWav = FALSE /\ disk = {}
    /\ \/ pc = "time" /\ tx \in TimeOperands /\ ty \in TimeOperands /\ tn = 0
       \/ /\ pc = "frames" /\ tx = ZeroTime /\ ty = ZeroTime
          /\ tn \in 0..MaxFrameCount
       \/ pc = "string" /\ tx = ZeroTime /\ ty = ZeroTime /\ tn = 0
       \/ pc = "triple" /\ tx \in ValidOperands /\ ty = ZeroTime /\ tn = 0
    /\ tres = NoResult
    /\ InitCmdIdle
    /\ InitWavIdle
    /\ InitFsmIdle
    /\ InitBarIdle

\* x - y on two _TrackTime objects
TimeSubtract ==
    /\ pc = "time"
    /\ tres = NoResult
    /\ tres' = [op |-> "sub", ok |-> TimeSub(tx, ty).ok, v |-> TimeSub(tx, ty).v]
    /\ UNCHANGED <<pc, err, errLine, tx, ty, tn>>
    /\ UNCHANGED <<parseVars, envVars, cmdVars, wavVars, libVars>>

\* _TrackTime(n) for an int n
TimeFromFrameCount ==
    /\ pc = "frames"
    /\ tres = NoResult
    /\ tres' = [op |-> "frames", ok |-> TRUE, v |-> TimeFromFrames(tn)]
    /\ UNCHANGED <<pc, err, errLine, tx, ty, tn>>
    /\ UNCHANGED <<parseVars, envVars, cmdVars, wavVars, libVars>>

\* str(_TrackTime(s)) for a string s
TimeParseAndPrint ==
    /\ pc = "string"
    /\ tres = NoResult
    /\ \E s \in TimeStrings :
          tres' = [op |-> "parse", ok |-> TRUE, s |-> s,
                   v |-> TimeFromString(s),
                   r |-> TimeReprChars(TimeFromString(s))]
    /\ UNCHANGED <<pc, err, errLine, tx, ty, tn>>
    /\ UNCHANGED <<parseVars, envVars, cmdVars, wavVars, libVars>>

\* _TrackTime(str(_TrackTime(tx))) for the triple tx
TimePrintAndParse ==
    /\ pc = "triple"
    /\ tres = NoResult
    /\ tres' = [op |-> "print", ok |-> TRUE, s |-> TimeReprChars(tx),
                v |-> TimeFromString(TimeReprChars(tx))]
    /\ UNCHANGED <<pc, err, errLine, tx, ty, tn>>
    /\ UNCHANGED <<parseVars, envVars, cmdVars, wavVars, libVars>>

NextTime ==
    \/ TimeSubtract
    \/ TimeFromFrameCount
    \/ TimeParseAndPrint
    \/ TimePrintAndParse

SpecTime == InitTime /\ [][NextTime]_vars

----------------------------------------------------------------------------
(* The command line: main(), CommandLine.run, CommandLine._run *)

\* largest number of lines getToc() returns to _run
MaxTocLines == 2

NoExit   == "none"
NoOutput == [opened |-> FALSE, lines |-> <<>>]

\* the subclasses of MkTocError declared in base.py
MkTocErrors ==
    {"MkTocError", "FileNotFoundError", "ParseError", "UnderflowError",
     "EmptyCueData"}

\* the exceptions CueParser.parse ends with; "Exception" stands for any
\* exception that is no MkTocError
ParseRaises(o) ==
    {"EmptyCueData", "ParseError", "UnderflowError", "Exception"}
       \cup (IF o.find_wav THEN {"FileNotFoundError", "TooManyFilesMatchError"}
             ELSE {})

\* the data CueParser.parse returns, as far as _run reads it
ParseDataValues ==
    [disc     : [is_multisession : BOOLEAN],
     toc      : {[i \in 1..n |-> i] : n \in 0..MaxTocLines},
     tocOk    : BOOLEAN,    \* getToc() returns
     lastLen  : BOOLEAN]    \* last_index.len_ is a time value

\* an exception leaves _run
Raise(e) ==
    /\ pc' = "raised"
    /\ err' = e

InitCmd ==
    /\ InitParse
    /\ InitWavIdle
    /\ InitFsmIdle
    /\ InitBarIdle
    /\ pc = "args"
    /\ fh = <<>> /\ findWav = FALSE /\ disk = {}
    /\ tx = ZeroTime /\ ty = ZeroTime /\ tn = 0 /\ tres = <<>>
    /\ opt = <<>>
    /\ cd = NoParseData
    /\ stderr = <<>>
    /\ tocOut = NoOutput
    /\ exitCode = NoExit

\* CommandLine._parse_args for the options -m, -z, -a and -o
CmdParseArgs ==
    /\ pc = "args"
    /\ \E m \in BOOLEAN, z \in BOOLEAN, a \in BOOLEAN, o \in BOOLEAN :
          IF m /\ z
          THEN /\ Raise("SystemExit")
               /\ stderr' = Append(stderr, "usage")
               /\ opt' = opt
          ELSE /\ opt' = [multisession |-> m, no_multisession |-> z,
                          find_wav |-> ~a, toc_file |-> o]
               /\ pc' = "parse"
               /\ UNCHANGED <<err, stderr>>
    /\ UNCHANGED <<cd, tocOut, exitCode>>
    /\ UNCHANGED <<errLine, parseVars, envVars, timeVars, wavVars, libVars>>

\* _run, lines 72-90 with the CUE data on stdin:
\* p = CueParser(cue_dir, opt.find_wav); cd_obj = p.parse(fh_in)
CmdParse ==
    /\ pc = "parse"
    /\ \/ \E e \in ParseRaises(opt) : Raise(e) /\ cd' = cd
       \/ \E v \in ParseDataValues : cd' = v /\ pc' = "check" /\ err' = err
    /\ UNCHANGED <<opt, stderr, tocOut, exitCode>>
    /\ UNCHANGED <<errLine, parseVars, envVars, timeVars, wavVars, libVars>>

\* _check_multisession_opt without the call of sys.exit
CheckMultisessionOptWarnOnly(c, o) ==
    IF ~c.disc.is_multisession THEN [cd |-> c, warn |-> FALSE, exit |-> FALSE]
    ELSE IF o.no_multisession
    THEN [cd |-> [c EXCEPT !.disc.is_multisession = FALSE],
          warn |-> FALSE, exit |-> FALSE]
    ELSE IF ~o.multisession THEN [cd |-> c, warn |-> TRUE, exit |-> FALSE]
    ELSE [cd |-> c, warn |-> FALSE, exit |-> FALSE]

\* CommandLine._check_multisession_opt: [cd, warn, exit]
CheckMultisessionOpt(c, o) ==
    IF ~c.disc.is_multisession THEN [cd |-> c, warn |-> FALSE, exit |-> FALSE]
    ELSE IF o.no_multisession
    THEN [cd |-> [c EXCEPT !.disc.is_multisession = FALSE],
          warn |-> FALSE, exit |-> FALSE]
    ELSE IF ~o.multisession THEN [cd |-> c, warn |-> TRUE, exit |-> TRUE]
    ELSE [cd |-> c, warn |-> FALSE, exit |-> FALSE]

\* _run, line 93
CmdCheckMultisession ==
    /\ pc = "check"
    /\ LET r == CheckMultisessionOpt(cd, opt)
       IN  /\ cd' = r.cd
           /\ stderr' = IF r.warn THEN Append(stderr, "multisession warning")
                        ELSE stderr
           /\ IF r.exit THEN Raise("SystemExit")
              ELSE pc' = "toc" /\ err' = err
    /\ UNCHANGED <<opt, tocOut, exitCode>>
    /\ UNCHANGED <<errLine, parseVars, envVars, timeVars, wavVars, libVars>>

\* _run, lines 96-105: getToc(), the output is opened, the banner and the
\* lines are written.  _open_file prints the error and exits when the
\* file named by -o cannot be opened.
CmdWriteToc ==
    /\ pc = "toc"
    /\ IF ~cd.tocOk
       THEN Raise("Exception") /\ UNCHANGED <<stderr, tocOut>>
       ELSE \E opens \in (IF opt.toc_file THEN BOOLEAN ELSE {TRUE}) :
               IF ~opens
               THEN /\ Raise("SystemExit")
                    /\ stderr' = Append(stderr, "open error")
                    /\ tocOut' = tocOut
               ELSE /\ tocOut' = [opened |-> TRUE,
                                  lines |-> <<"banner">> \o cd.toc]
                    /\ pc' = "instr"
                    /\ UNCHANGED <<err, stderr>>
    /\ UNCHANGED <<opt, cd, exitCode>>
    /\ UNCHANGED <<errLine, parseVars, envVars, timeVars, wavVars, libVars>>

\* _run, lines 110-121: the multi-session instructions
CmdInstructions ==
    /\ pc = "instr"
    /\ IF ~cd.lastLen
       THEN Raise("Exception") /\ stderr' = stderr
       ELSE /\ stderr' = Append(stderr, "instructions")
            /\ pc' = "returned"
            /\ err' = err
    /\ UNCHANGED <<opt, cd, tocOut, exitCode>>
    /\ UNCHANGED <<errLine, parseVars, envVars, timeVars, wavVars, libVars>>

\* CommandLine.run: the except clauses, in their order
CmdRunHandler ==
    /\ pc = "raised"
    /\ IF err = "TooManyFilesMatchError"
       THEN stderr' = Append(stderr, "error_msg_multi_files") /\ pc' = "returned"
       ELSE IF err = "FileNotFoundError"
       THEN stderr' = Append(stderr, "error_msg_no_file") /\ pc' = "returned"
       ELSE IF err \in MkTocErrors
       THEN stderr' = Append(stderr, "error_msg") /\ pc' = "returned"
       ELSE stderr' = stderr /\ pc' = "propagated"
    /\ UNCHANGED <<err, opt, cd, tocOut, exitCode>>
    /\ UNCHANGED <<errLine, parseVars, envVars, timeVars, wavVars, libVars>>

\* main(): the handlers around CommandLine().run() and the return value
CmdMain ==
    /\ pc \in {"returned", "propagated"}
    /\ IF pc = "returned"
       THEN exitCode' = 0 /\ stderr' = stderr
       ELSE IF err = "EmptyCueData"
       THEN exitCode' = 1 /\ stderr' = stderr
       ELSE IF err = "Exception"
       THEN exitCode' = 1 /\ stderr' = Append(stderr, "traceback")
       ELSE exitCode' = 1 /\ stderr' = stderr
    /\ pc' = "exit"
    /\ UNCHANGED <<err, opt, cd, tocOut>>
    /\ UNCHANGED <<errLine, parseVars, envVars, timeVars, wavVars, libVars>>

NextCmd ==
    \/ CmdParseArgs
    \/ CmdParse
    \/ CmdCheckMultisession
    \/ CmdWriteToc
    \/ CmdInstructions
    \/ CmdRunHandler
    \/ CmdMain

SpecCmd == InitCmd /\ [][NextCmd]_vars

----------------------------------------------------------------------------
(* WavFileCache of src/mktoc/wav.py: one cache object and its calls.  File  *)
(* names are sequences of characters.                                       *)

\* largest number of calls made on the cache object
MaxCalls == 2

\* the files of the directory the cache is created for; it has no
\* sub-directories and is the working directory
WavDirFiles ==
    {<<"a", ".", "w", "a", "v">>, <<"a", "b", ".", "w", "a", "v">>,
     <<"b", "_", "c", ".", "w", "a", "v">>, <<"n", ".", "t", "x", "t">>}

\* the names the cache is called with
WavNames ==
    {<<"a", ".", "w", "a", "v">>, <<"b", ".", "w", "a", "v">>,
     <<"b", " ", "c", ".", "w", "a", "v">>, <<"n", ".", "t", "x", "t">>,
     <<"A", "B", ".", "W", "A", "V">>, <<"d", "\\", "a", ".", "w", "a", "v">>,
     <<" ", "b", "_", "c", " ", ".", "w", "a", "v">>,
     <<"z", "z", ".", "w", "a", "v">>}

\* re.IGNORECASE on the letters of the model
LowerChar(c) ==
    CASE c = "A" -> "a" [] c = "B" -> "b" [] c = "V" -> "v" [] c = "W" -> "w"
      [] OTHER -> c

LowerSeq(q) == [i \in 1..Len(q) |-> LowerChar(q[i])]

\* str.replace(a, b) for single characters
ReplaceChar(q, a, b) == [i \in 1..Len(q) |-> IF q[i] = a THEN b ELSE q[i]]

\* _WAV_REGEX.search: the name ends in '.wav', whatever the case
EndsWithWav(q) ==
    /\ Len(q) >= 4
    /\ LowerSeq(SubSeq(q, Len(q) - 3, Len(q))) = <<".", "w", "a", "v">>

\* os.path.basename
Basename(q) ==
    LET sl == {i \in 1..Len(q) : q[i] = "/"}
    IN  IF sl = {} THEN q
        ELSE SubSeq(q, (CHOOSE i \in sl : \A j \in sl : j <= i) + 1, Len(q))

\* os.path.splitext(q)[0]: the name up to its last dot, when a character
\* other than a dot stands before that dot
SplitExtRoot(q) ==
    LET dots == {i \in 1..Len(q) : q[i] = "."}
        last == CHOOSE i \in dots : \A j \in dots : j <= i
    IN  IF dots = {} THEN q
        ELSE IF \A j \in 1..(last - 1) : q[j] = "." THEN q
        ELSE SubSeq(q, 1, last - 1)

\* str.strip() for blanks
RECURSIVE Strip(_)
Strip(q) ==
    IF q = <<>> THEN q
    ELSE IF Head(q) = " " THEN Strip(Tail(q))
    ELSE IF q[Len(q)] = " " THEN Strip(SubSeq(q, 1, Len(q) - 1))
    ELSE q

\* the name without directories, extension and surrounding blanks
Stem(name) == Strip(SplitExtRoot(Basename(ReplaceChar(name, "\\", "/"))))

\* re.search of sep + '.*' + re.escape(fn) + '.*' with IGNORECASE
PatSearch(fn, path) ==
    \E i \in 1..Len(path) :
       /\ path[i] = "/"
       /\ \E j \in (i + 1)..(Len(path) + 1) :
             /\ j + Len(fn) - 1 <= Len(path)
             /\ LowerSeq(SubSeq(path, j, j + Len(fn) - 1)) = LowerSeq(fn)

\* file_regex.search: the pattern of the stem and of its two variants with
\* blanks and underscores exchanged
FileRegexSearch(name, path) ==
    \/ PatSearch(Stem(name), path)
    \/ PatSearch(ReplaceChar(Stem(name), " ", "_"), path)
    \/ PatSearch(ReplaceChar(Stem(name), "_", " "), path)

\* WavFileCache._data: None, or the list of the WAV files found
WavNoData     == [set |-> FALSE, v |-> {}]
WavData(fs)   == [set |-> TRUE, v |-> fs]

\* os.path.exists in the working directory
WavPathExists(d, q) == q \in d \/ \E f \in d : q = <<".", "/">> \o f

\* _init_cache: os.walk over the directory, the files that _WAV_REGEX
\* matches joined to '.'
WavInitCache(d) == {<<".", "/">> \o f : f \in {g \in d : EndsWithWav(g)}}

\* _get_cache: [data, scans]; the cache is created when _data is None
WavGetCache(data, d) ==
    IF ~data.set THEN [data |-> WavData(WavInitCache(d)), scans |-> 1]
    ELSE [data |-> data, scans |-> 0]

\* __call__ as WavFileCache.lookup of the earlier revision ended it: any
\* number of matches other than one is FileNotFoundError
WavCacheCallOneError(data, d, name) ==
    LET tmp == ReplaceChar(name, "\\", "/")
    IN  IF EndsWithWav(tmp) /\ WavPathExists(d, tmp)
        THEN [kind |-> "return", file |-> name, found |-> {},
              data |-> data, scans |-> 0]
        ELSE LET c1 == WavGetCache(data, d)
                 c2 == WavGetCache(c1.data, d)
                 m  == {f \in c2.data.v : FileRegexSearch(name, f)}
             IN  IF Cardinality(m) = 1
                 THEN [kind |-> "return", file |-> CHOOSE f \in m : TRUE,
                       found |-> {}, data |-> c2.data,
                       scans |-> c1.scans + c2.scans]
                 ELSE [kind |-> "FileNotFoundError", file |-> name,
                       found |-> {}, data |-> c2.data,
                       scans |-> c1.scans + c2.scans]

\* WavFileCache.__call__: [kind, file, found, data, scans]; kind is
\* "return" or the exception raised, found the files the exception carries
WavCacheCall(data, d, name) ==
    LET tmp == ReplaceChar(name, "\\", "/")
    IN  IF EndsWithWav(tmp) /\ WavPathExists(d, tmp)
        THEN [kind |-> "return", file |-> name, found |-> {},
              data |-> data, scans |-> 0]
        ELSE LET c1 == WavGetCache(data, d)
                 c2 == WavGetCache(c1.data, d)
                 m  == {f \in c2.data.v : FileRegexSearch(name, f)}
             IN  IF Cardinality(m) = 1
                 THEN [kind |-> "return", file |-> CHOOSE f \in m : TRUE,
                       found |-> {}, data |-> c2.data,
                       scans |-> c1.scans + c2.scans]
                 ELSE IF Cardinality(m) = 0
                 THEN [kind |-> "FileNotFoundError", file |-> name,
                       found |-> {}, data |-> c2.data,
                       scans |-> c1.scans + c2.scans]
                 ELSE [kind |-> "TooManyFilesMatchError", file |-> name,
                       found |-> m, data |-> c2.data,
                       scans |-> c1.scans + c2.scans]

\* WavFileCache(): _data is None, nothing has been looked up
InitWav ==
    /\ InitParse
    /\ InitCmdIdle
    /\ InitFsmIdle
    /\ InitBarIdle
    /\ pc = "wav"
    /\ fh = <<>> /\ findWav = FALSE
    /\ disk \in SUBSET WavDirFiles
    /\ tx = ZeroTime /\ ty = ZeroTime /\ tn = 0 /\ tres = <<>>
    /\ wdata = WavNoData
    /\ wscans = 0
    /\ wcalls = 0
    /\ wres = <<>>

\* one call wc(name)
WavCall ==
    /\ pc = "wav"
    /\ wcalls < MaxCalls
    /\ \E name \in WavNames :
          LET r == WavCacheCall(wdata, disk, name)
          IN  /\ wdata' = r.data
              /\ wscans' = wscans + r.scans
              /\ wres' = [name |-> name, kind |-> r.kind, file |-> r.file,
                          found |-> r.found]
    /\ wcalls' = wcalls + 1
    /\ UNCHANGED <<pc, err, errLine, parseVars, envVars, timeVars, cmdVars,
                   libVars>>

\* between two calls the content of the directory changes
WavDirChange ==
    /\ pc = "wav"
    /\ \E d \in SUBSET WavDirFiles : d # disk /\ disk' = d
    /\ UNCHANGED <<fh, findWav, pc, err, errLine, parseVars, timeVars,
                   cmdVars, wavVars, libVars>>

NextWav ==
    \/ WavCall
    \/ WavDirChange

SpecWav == InitWav /\ [][NextWav]_vars

----------------------------------------------------------------------------
(* StateMachine (fsm.py).  A compiled pattern is modelled by what match()
   and lastgroup give for each line; a handler by its name, the
   change_state call it makes being an input of the step that calls it. *)

MaxFsmLines == 3

FsmLineSet == {"x", "y"}

FsmGroups == {"g1", "g2"}

FsmHandlerNames == {"h1", "h2"}

\* regex_obj.match(l) gives None
NoGroup == "nomatch"

\* the pattern objects: the lastgroup of the match of each line, or NoGroup
FsmRegexObjs == [FsmLineSet -> FsmGroups \cup {NoGroup}]

\* the handler dicts: group names to handler functions
FsmHandlerDicts ==
    UNION {[g -> FsmHandlerNames] : g \in SUBSET FsmGroups}

Given(v) == [set |-> TRUE, v |-> v]

\* the argument lists of change_state: each keyword given or left out
FsmChangeArgs ==
    [regex_obj : {NoArg} \cup {Given(r) : r \in FsmRegexObjs},
     match_handlers : {NoArg} \cup {Given(h) : h \in FsmHandlerDicts}]

\* the change_state calls a handler makes: one keyword at a time
FsmHandlerArgs ==
    {a \in FsmChangeArgs : ~a.regex_obj.set \/ ~a.match_handlers.set}

FsmInputs ==
    UNION {[1..n -> FsmLineSet] : n \in 0..MaxFsmLines}

\* StateMachine.change_state: "if regex_obj:" and "if match_handlers:" test
\* the truth value, so an empty dict is not stored
ChangeState(regex, handlers, args) ==
    [regex |-> IF args.regex_obj.set THEN args.regex_obj ELSE regex,
     handlers |-> IF args.match_handlers.set
                     /\ DOMAIN args.match_handlers.v # {}
                  THEN args.match_handlers ELSE handlers]

\* the loop body that calls the handler of the first registered name
FsmLineFirstHandler(regex, handlers, l) ==
    IF ~regex.set THEN [kind |-> "AttributeError", name |-> NoGroup, handler |-> ""]
    ELSE LET match_name == regex.v[l]
         IN  IF match_name = NoGroup
             THEN [kind |-> "NullStateException", name |-> NoGroup, handler |-> ""]
             ELSE IF ~handlers.set
             THEN [kind |-> "TypeError", name |-> match_name, handler |-> ""]
             ELSE IF match_name \notin DOMAIN handlers.v
             THEN [kind |-> "KeyError", name |-> match_name, handler |-> ""]
             ELSE [kind |-> "handled", name |-> match_name,
                   handler |-> handlers.v[CHOOSE g \in DOMAIN handlers.v :
                                            g = "g1" \/ "g1" \notin DOMAIN handlers.v]]

\* the body of the loop of StateMachine.__call__ for the line l: the
\* handler that is called, or the exception that leaves the loop
\* (None.match is an AttributeError, None[name] a TypeError, a name without
\* handler a KeyError)
FsmLine(regex, handlers, l) ==
    IF ~regex.set THEN [kind |-> "AttributeError", name |-> NoGroup, handler |-> ""]
    ELSE LET match_name == regex.v[l]
         IN  IF match_name = NoGroup
             THEN [kind |-> "NullStateException", name |-> NoGroup, handler |-> ""]
             ELSE IF ~handlers.set
             THEN [kind |-> "TypeError", name |-> match_name, handler |-> ""]
             ELSE IF match_name \notin DOMAIN handlers.v
             THEN [kind |-> "KeyError", name |-> match_name, handler |-> ""]
             ELSE [kind |-> "handled", name |-> match_name,
                   handler |-> handlers.v[match_name]]

\* StateMachine(): both attributes are the None of the class
InitFsm ==
    /\ InitParse
    /\ InitCmdIdle
    /\ InitWavIdle
    /\ InitBarIdle
    /\ InitFsmIdle
    /\ pc = "fsm"
    /\ fh = <<>> /\ findWav = FALSE /\ disk = {}
    /\ tx = ZeroTime /\ ty = ZeroTime /\ tn = 0 /\ tres = <<>>

\* the owner of the machine calls change_state between two runs
FsmChangeState ==
    /\ pc = "fsm"
    /\ \E args \in FsmChangeArgs :
          LET r == ChangeState(fsmRegex, fsmHandlers, args)
          IN  /\ fsmArgs' = args
              /\ fsmRegex' = r.regex
              /\ fsmHandlers' = r.handlers
    /\ UNCHANGED <<pc, err, errLine, fsmLines, fsmPos, fsmLog, parseVars,
                   envVars, timeVars, cmdVars, wavVars, barVars>>

\* sm(lines): the loop starts; an empty list returns at once
FsmCall ==
    /\ pc = "fsm"
    /\ \E lines \in FsmInputs :
          /\ fsmLines' = lines
          /\ pc' = IF lines = <<>> THEN "fsmreturned" ELSE "fsmcall"
    /\ UNCHANGED <<err, errLine, fsmRegex, fsmHandlers, fsmArgs, fsmPos,
                   fsmLog, parseVars, envVars, timeVars, cmdVars, wavVars,
                   barVars>>

\* one turn of the loop: the next line is matched and its handler runs; the
\* handler may call change_state; after the last line the call returns
FsmStep ==
    /\ pc = "fsmcall"
    /\ LET l == fsmLines[fsmPos + 1]
           r == FsmLine(fsmRegex, fsmHandlers, l)
       IN  IF r.kind # "handled"
           THEN /\ pc' = "fsmraised"
                /\ err' = r.kind
                /\ errLine' = IF r.kind = "NullStateException"
                              THEN [NoLine EXCEPT !.k = "repr", !.val = l]
                              ELSE errLine
                /\ UNCHANGED fsmVars
           ELSE /\ fsmLog' = Append(fsmLog, [pos |-> fsmPos + 1, line |-> l,
                                             name |-> r.name,
                                             handler |-> r.handler])
                /\ fsmPos' = fsmPos + 1
                /\ pc' = IF fsmPos + 1 = Len(fsmLines) THEN "fsmreturned"
                         ELSE "fsmcall"
                /\ \/ UNCHANGED <<fsmRegex, fsmHandlers, fsmArgs>>
                   \/ \E args \in FsmHandlerArgs :
                         LET c == ChangeState(fsmRegex, fsmHandlers, args)
                         IN  /\ fsmArgs' = args
                             /\ fsmRegex' = c.regex
                             /\ fsmHandlers' = c.handlers
                /\ UNCHANGED <<err, errLine, fsmLines>>
    /\ UNCHANGED <<parseVars, envVars, timeVars, cmdVars, wavVars, barVars>>

\* the call has returned or raised: the owner has the machine again, the
\* list and the loop position of the call are gone
FsmReturn ==
    /\ pc \in {"fsmreturned", "fsmraised"}
    /\ pc' = "fsm"
    /\ err' = NoErr
    /\ errLine' = NoLine
    /\ fsmLines' = <<>>
    /\ fsmPos' = 0
    /\ fsmLog' = <<>>
    /\ UNCHANGED <<fsmRegex, fsmHandlers, fsmArgs, parseVars, envVars,
                   timeVars, cmdVars, wavVars, barVars>>

NextFsm ==
    \/ FsmChangeState
    \/ FsmCall
    \/ FsmStep
    \/ FsmReturn

SpecFsm == InitFsm /\ [][NextFsm]_vars

----------------------------------------------------------------------------
(* ProgressBar (progress_bar.py) *)

MaxBarMax == 3

MaxOther == 5

MaxAdds == 3

Min(a, b) == IF a <= b THEN a ELSE b

\* += that adds the operand as it is
BarIaddUnclamped(size, bar_max, other) == size + other

\* ProgressBar.__iadd__: the new _size
BarIadd(size, bar_max, other) == size + Min(other, bar_max - size)

\* ProgressBar(notice_txt, bar_max): _size is 0
InitBar ==
    /\ InitParse
    /\ InitCmdIdle
    /\ InitWavIdle
    /\ InitFsmIdle
    /\ pc = "bar"
    /\ fh = <<>> /\ findWav = FALSE /\ disk = {}
    /\ tx = ZeroTime /\ ty = ZeroTime /\ tn = 0 /\ tres = <<>>
    /\ barMax \in 0..MaxBarMax
    /\ barSize = 0
    /\ barOther = 0
    /\ barAdds = 0

\* pb += other
BarAdd ==
    /\ pc = "bar"
    /\ barAdds < MaxAdds
    /\ \E other \in (-MaxOther)..MaxOther :
          /\ barOther' = other
          /\ barSize' = BarIadd(barSize, barMax, other)
    /\ barAdds' = barAdds + 1
    /\ UNCHANGED <<pc, err, errLine, barMax, parseVars, envVars, timeVars,
                   cmdVars, wavVars, fsmVars>>

NextBar == BarAdd

SpecBar == InitBar /\ [][NextBar]_vars

----------------------------------------------------------------------------
(* Properties of the rewrite pass (Disc.mung, Track.mung, TrackIndex.mung) *)

\* the index at position i of track t has not been reclassified by the
\* index before it when the pass visits it
VisitedAsAudio(t, i) ==
    i = 1 \/ built[t].indexes[i - 1].file_ # built[t].indexes[i].file_

\* C1: after the rewrite pass, an index of a track T that was still an
\* AudioFile when visited and whose file is the file of the first index of
\* the following track T' has the length (start of the first index of T')
\* minus (its own start).
CrossTrackTruncation ==
    pc \in {"munged", "done"} =>
        \A t \in 1..(Len(built) - 1) : \A i \in 1..Len(built[t].indexes) :
            LET o == built[t].indexes[i]
                n == built[t + 1].indexes
            IN  (n # <<>> /\ VisitedAsAudio(t, i) /\ o.file_ = n[1].file_) =>
                    LET l == tracks[t].indexes[i].len_
                    IN  /\ l.st = "time"
                        /\ ValidTime(l.v)
                        /\ Frames(l.v) = Frames(n[1].time.v) - Frames(o.time.v)

\* track 1's only index at 00:00:00 with the length of its file, track 2's
\* first index at 00:02:00 in the same file: the length becomes 00:02:00
CrossTrackTruncationWitness ==
    /\ pc = "done"
    /\ Len(tracks) = 2
    /\ Len(tracks[1].indexes) = 1
    /\ built[1].indexes[1].time = Attr(ZeroTime)
    /\ built[1].indexes[1].len_ = LenTime(<<0, 5, 0>>)
    /\ built[2].indexes # <<>>
    /\ built[2].indexes[1].time = Attr(<<0, 2, 0>>)
    /\ tracks[1].indexes[1].len_ = LenTime(<<0, 2, 0>>)

\* C2: after the rewrite pass, for consecutive indexes (self, next) of one
\* track with self.number = 0 and the same file, next is a StartMarker, its
\* length is its original start minus self's start, its start is
\* invalidated, and it is emitted as START with only that length.
SharedFilePregap ==
    pc \in {"munged", "done"} =>
        \A t \in 1..Len(built) : \A i \in 1..(Len(built[t].indexes) - 1) :
            LET self == built[t].indexes[i]
                next == built[t].indexes[i + 1]
                out  == tracks[t].indexes[i + 1]
            IN  (self.num = 0 /\ self.file_ = next.file_) =>
                    /\ out.cmd = START
                    /\ out.len_.st = "time"
                    /\ Frames(out.len_.v) = Frames(next.time.v) - Frames(self.time.v)
                    /\ ~out.time.set
                    /\ IndexStr(out) =
                          [ok |-> TRUE,
                           lines |-> <<TocLine("START", "", "", TimeRepr(out.len_.v))>>]

\* C3: after the rewrite pass, for consecutive indexes (self, next) of one
\* track with self.number = 0 and different files, self is a PregapAudio,
\* next keeps the command its own visit gives it, and self is rendered as
\* its AUDIOFILE command followed by a bare START.
PregapOnlyReclassified ==
    pc \in {"munged", "done"} =>
        \A t \in 1..Len(built) : \A i \in 1..(Len(built[t].indexes) - 1) :
            LET idxs == built[t].indexes
                self == idxs[i]
                next == idxs[i + 1]
                s    == tracks[t].indexes[i]
                n    == tracks[t].indexes[i + 1]
            IN  (self.num = 0 /\ self.file_ # next.file_) =>
                    /\ s.cmd = PREAUDIO
                    /\ n.cmd = IF /\ next.num = 0
                                  /\ i + 2 <= Len(idxs)
                                  /\ next.file_ # idxs[i + 2].file_
                               THEN PREAUDIO ELSE AUDIO
                    /\ IndexStr(s).ok
                    /\ Len(IndexStr(s).lines) = 2
                    /\ IndexStr(s).lines[1].k = "AUDIOFILE"
                    /\ IndexStr(s).lines[1].a = self.file_
                    /\ IndexStr(s).lines[2] = TocLine("START", "", "", "")

\* C4: after the rewrite pass, for consecutive indexes (self, next) of one
\* track with self.number > 0 and the same file, next is an IndexMarker,
\* its length is invalidated, its start is unchanged, and it is emitted as
\* INDEX with only its start time.
SharedFileInteriorIndex ==
    pc \in {"munged", "done"} =>
        \A t \in 1..Len(built) : \A i \in 1..(Len(built[t].indexes) - 1) :
            LET self == built[t].indexes[i]
                next == built[t].indexes[i + 1]
                out  == tracks[t].indexes[i + 1]
            IN  (self.num > 0 /\ self.file_ = next.file_) =>
                    /\ out.cmd = INDEX
                    /\ out.len_.st = "del"
                    /\ out.time = next.time
                    /\ IndexStr(out) =
                          [ok |-> TRUE,
                           lines |-> <<TocLine("INDEX", "", TimeRepr(next.time.v), "")>>]

----------------------------------------------------------------------------
(* Properties of the parse and of the formatter *)

\* C5: a track whose TRACK line names a mode other than AUDIO is marked as
\* data and puts the disc in multi-session mode, and it adds no line to the
\* list getToc returns: every empty line of the list opens the block of an
\* audio track, "//Track n".
DataTrackSuppressed ==
    /\ \A t \in 1..Len(tracks) :
          cue[trackLines[t] + 1].val # "AUDIO" =>
              tracks[t].is_data /\ disc._mode = "CD_ROM_XA"
    /\ pc = "done" =>
          \A k \in 1..Len(toc) :
              toc[k] = EmptyLine => (k < Len(toc) /\ toc[k + 1].k = "//Track")

\* the lines before the first TRACK line
DiscRegion ==
    {i \in 1..Len(cue) : \A j \in 1..i : cue[j].k # "track"}

\* the lines of the slice of track t, its TRACK line included
TrackRegion(t) ==
    {i \in 1..Len(cue) :
        /\ i > trackLines[t]
        /\ t < Len(trackLines) => i <= trackLines[t + 1]}

\* the disc-info scan has run
DiscScanned ==
    \/ pc \in {"tracks", "parsed", "mung", "munged", "done"}
    \/ pc = "failed" /\ err \notin {"EmptyCueData", "FileNotFoundError"}

\* the scan of the slice of track t has run
TrackScanned(t) ==
    /\ disc # NoDisc
    /\ \/ t <= Len(tracks)
       \/ /\ pc = "failed" /\ Len(tracks) = t - 1
          /\ err \notin {"FileNotFoundError", "StopIteration"}

\* C6: a line that matches no pattern of the active pattern set, in the
\* disc-info region or in a track's slice, makes the parse fail with
\* ParseError, and the error names that line.
MalformedLineParseError ==
    /\ (DiscScanned /\ \E i \in DiscRegion : DiscMatch(cue[i]) = "") =>
          /\ pc = "failed" /\ err = "ParseError"
          /\ \E i \in DiscRegion : DiscMatch(cue[i]) = "" /\ errLine = cue[i]
    /\ \A t \in 1..Len(trackLines) :
          (TrackScanned(t) /\ \E i \in TrackRegion(t) : TinfoMatch(cue[i]) = "") =>
              /\ pc = "failed" /\ err = "ParseError"
              /\ \E i \in TrackRegion(t) :
                    TinfoMatch(cue[i]) = "" /\ errLine = cue[i]

\* C7: when a length computation (at index creation, cross-track
\* truncation, pregap duration) subtracts a later valid time from an
\* earlier valid time, the conversion has failed with UnderflowError and
\* no output line exists.
UnderflowAborts ==
    (\E p \in subs : /\ ValidTime(p[1]) /\ ValidTime(p[2])
                     /\ Frames(p[1]) < Frames(p[2])) =>
        pc = "failed" /\ err = "UnderflowError" /\ toc = <<>>

\* the rewrite pass, all tracks built, truncates an index that starts at
\* 00:02:00 against a following track that starts at 00:00:00
UnderflowAbortsWitness ==
    /\ pc = "failed"
    /\ err = "UnderflowError"
    /\ Len(built) = 2
    /\ subs = {<<ZeroTime, <<0, 2, 0>>>>}
    /\ toc = <<>>

\* C10: an input with no line left once the REM COMMENT lines are stripped
\* fails with EmptyCueData, and no Disc or Track is built.
EmptyInputFails ==
    (pc \notin {"init", "time"} /\ \A i \in 1..Len(fh) : fh[i].k = "remcomment") =>
        /\ pc = "failed"
        /\ err = "EmptyCueData"
        /\ disc = NoDisc
        /\ tracks = <<>>

\* an input of two REM COMMENT lines
EmptyInputFailsWitness ==
    /\ fh = <<RemCommentLine, RemCommentLine>>
    /\ pc = "failed"
    /\ err = "EmptyCueData"

----------------------------------------------------------------------------
(* Properties of _TrackTime.__sub__ *)

\* C8: for x and y with seconds in [0,60) and frames in [0,75), x - y is
\* the valid triple of frames(x) - frames(y) frames when
\* frames(x) >= frames(y), and fails with UnderflowError otherwise.
SubtractionAgreesWithFrames ==
    (pc = "time" /\ tres # NoResult /\ ValidTime(tx) /\ ValidTime(ty)) =>
        /\ tres.op = "sub"
        /\ IF Frames(tx) >= Frames(ty)
           THEN /\ tres.ok
                /\ ValidTime(tres.v)
                /\ Frames(tres.v) = Frames(tx) - Frames(ty)
           ELSE ~tres.ok

\* 10:10:10 - 00:00:11 = 10:09:74
SubtractionAgreesWithFramesWitness ==
    /\ pc = "time"
    /\ tx = <<10, 10, 10>>
    /\ ty = <<0, 0, 11>>
    /\ tres # NoResult
    /\ tres.ok
    /\ tres.v = <<10, 9, 74>>

\* C9: for operands whose fields are any two-digit values, a subtraction
\* that returns a value returns no negative component.
SubtractionNeverNegative ==
    (pc = "time" /\ tres # NoResult /\ tres.ok) =>
        tres.v[1] >= 0 /\ tres.v[2] >= 0 /\ tres.v[3] >= 0

----------------------------------------------------------------------------
(* Properties of the disc-info scan (CueParser._parse_disc) *)

\* the disc field a key names, compared without regard to letter case;
\* "" when it names none of the six
FieldOf(key) ==
    CASE key \in {"GENRE", "Genre"} -> "genre"
      [] key \in {"TITLE", "title"} -> "title"
      [] key = "PERFORMER" -> "performer"
      [] key = "DATE" -> "date"
      [] key = "DISCID" -> "discid"
      [] key = "CATALOG" -> "catalog"
      [] OTHER -> ""

SixFields == {"performer", "title", "genre", "date", "discid", "catalog"}

\* the value the disc-info lines give to field f: the value of the last
\* line whose key names f, None when no line does
FieldValue(f) ==
    LET at == {i \in DiscRegion : cue[i].k # "file" /\ FieldOf(cue[i].key) = f}
    IN  IF at = {} THEN None
        ELSE cue[CHOOSE i \in at : \A j \in at : j <= i].val

\* the lines of the disc-info region with a REM or quoted key that names
\* none of the six fields
UnknownKeys ==
    {i \in DiscRegion : cue[i].k \in {"rem", "quote"} /\ FieldOf(cue[i].key) = ""}

\* the disc-info scan of a sheet with a TRACK line has run
DiscInfoScanned == DiscScanned /\ trackLines # <<>>

\* C11: in the disc-info scan a REM or quoted line whose key is none of
\* performer, title, genre, date, discid, catalog makes the parse fail with
\* ParseError and no Disc is modified; recognized keys, in any letter
\* case, set exactly their fields.
UnrecognizedDiscKey ==
    /\ (DiscInfoScanned /\ UnknownKeys # {}) =>
          pc = "failed" /\ err = "ParseError" /\ disc = NoDisc
    /\ (pc = "tracks" /\ tracks = <<>>) =>
          /\ \A f \in SixFields : disc[f] = FieldValue(f)
          /\ disc._mode = "CD_DA"
          /\ disc.mung = "method"

\* C12: a REM line of the disc-info region whose key is no disc field does
\* not make the parse fail, and the fields the other lines set are
\* unaffected.
GeneralRemIgnored ==
    (/\ DiscInfoScanned
     /\ \A i \in DiscRegion : DiscMatch(cue[i]) # ""
     /\ \A i \in UnknownKeys : cue[i].k = "rem") =>
        /\ disc # NoDisc
        /\ \A f \in SixFields : disc[f] = FieldValue(f)

\* C13: a non-empty sheet of well-formed disc-info lines with no TRACK
\* line fails with ParseError.
NoTracksParseError ==
    (/\ pc \notin {"init", "lookup", "disc", "time"}
     /\ cue # <<>>
     /\ \A i \in 1..Len(cue) :
           /\ DiscMatch(cue[i]) \in {"rem", "quote", "catalog"}
           /\ FieldOf(cue[i].key) # "") =>
        pc = "failed" /\ err = "ParseError"

----------------------------------------------------------------------------
(* Properties of the WAV lookup made by the parser *)

\* the name does not resolve in the directory d: no such path exists and
\* the number of WAV files of d that match it is not one
Unresolvable(d, name) ==
    /\ name \notin d
    /\ \A f \in d : name # "./" \o f
    /\ Cardinality({f \in d : FuzzyMatch(name, "./" \o f)}) # 1

\* several WAV files of d match the name
Ambiguous(d, name) ==
    /\ Unresolvable(d, name)
    /\ Cardinality({f \in d : FuzzyMatch(name, "./" \o f)}) > 1

\* positions (1-based) of the lines of kind k in the stripped sheet
LinesOfKind(k) == {j \in 1..Len(cue) : cue[j].k = k}

\* the name on the last FILE line above position j
FileAbove(j) ==
    LET above == {m \in LinesOfKind("file") : m < j}
    IN  cue[CHOOSE m \in above : \A n \in above : n <= m].val

\* the n-th INDEX line of the sheet
NthIndexLine(n) ==
    CHOOSE j \in LinesOfKind("index") :
        Cardinality({m \in LinesOfKind("index") : m <= j}) = n

\* the indexes of all tracks in sheet order
RECURSIVE FlatIndexes(_)
FlatIndexes(trks) ==
    IF trks = <<>> THEN <<>>
    ELSE trks[1].indexes \o FlatIndexes(Tail(trks))

\* C14: when the name on a FILE line does not resolve (not found, or
\* several candidates), a parser with mandatory lookup ends with the
\* lookup failure and builds nothing; a parser without it never ends with
\* that failure and every index under the FILE line carries the name as
\* written.
TolerateUnresolvedFile ==
    /\ (findWav /\ pc \notin {"init", "lookup"}
          /\ \E j \in LinesOfKind("file") : Unresolvable(disk, cue[j].val))
       => (pc = "failed" /\ err = "FileNotFoundError"
             /\ disc = NoDisc /\ tracks = <<>> /\ built = <<>>)
    /\ ~findWav => err # "FileNotFoundError"
    /\ (~findWav /\ built # <<>>) =>
          /\ Len(FlatIndexes(built)) = Cardinality(LinesOfKind("index"))
          /\ \A n \in 1..Len(FlatIndexes(built)) :
                Unresolvable(disk, FileAbove(NthIndexLine(n)))
                   => FlatIndexes(built)[n].file_ = FileAbove(NthIndexLine(n))

\* a sheet naming a file that two WAV files match is converted without
\* mandatory lookup and its index keeps the name as written
TolerateUnresolvedFileWitness ==
    /\ ~findWav
    /\ pc = "done"
    /\ Len(built) = 1 /\ Len(built[1].indexes) = 1
    /\ Ambiguous(disk, built[1].indexes[1].file_)

\* the mandatory lookup ends on a name that two WAV files match
MandatoryLookupFailsWitness ==
    /\ findWav
    /\ pc = "failed" /\ err = "FileNotFoundError"
    /\ \E j \in LinesOfKind("file") : Ambiguous(disk, cue[j].val)

----------------------------------------------------------------------------
(* Properties of the command line *)

\* C15: when the parse raises EmptyCueData, the application has printed no
\* error message when it ends and main returns a non-zero value.
EmptyInputSilentNonZero ==
    (pc = "exit" /\ err = "EmptyCueData") => (stderr = <<>> /\ exitCode # 0)

\* C16: main returns 0 exactly when the run raised no exception; a run that
\* raised a MkTocError or any other exception makes main return non-zero.
ExitStatus ==
    pc = "exit" => (exitCode = 0 <=> err = NoErr)

\* the states after the multi-session check of a run whose disc is
\* multi-session and whose options name neither -m nor -z, and the state of
\* the flag once output exists under -z
MultisessionGuard ==
    /\ (cd # NoParseData /\ pc # "check" /\ cd.disc.is_multisession
          /\ ~opt.multisession /\ ~opt.no_multisession)
       => (err = "SystemExit" /\ tocOut = NoOutput
             /\ (pc = "exit" => exitCode # 0))
    /\ (tocOut # NoOutput /\ opt.no_multisession) => ~cd.disc.is_multisession

\* the step of the multi-session check: it comes before any output, clears
\* the flag under -z and changes nothing for a disc that is not
\* multi-session
MultisessionStep ==
    pc = "check" =>
       /\ tocOut = NoOutput /\ tocOut' = NoOutput
       /\ (cd.disc.is_multisession /\ opt.no_multisession)
             => (~cd'.disc.is_multisession /\ pc' = "toc")
       /\ ~cd.disc.is_multisession
             => (cd' = cd /\ stderr' = stderr /\ err' = err /\ pc' = "toc")

\* C17: a multi-session disc with neither -m nor -z ends the run with a
\* failure before the TOC output is opened or written; with -z the flag is
\* cleared before any output; for a disc that is not multi-session the
\* options have no effect.
MultisessionSafety == []MultisessionGuard /\ [][MultisessionStep]_vars

\* a run on a multi-session disc without -m and -z has ended: warning on
\* stderr, exit value 1, no output
MultisessionSafetyWitness ==
    /\ pc = "exit"
    /\ cd # NoParseData /\ cd.disc.is_multisession
    /\ ~opt.multisession /\ ~opt.no_multisession
    /\ stderr = <<"multisession warning">>
    /\ exitCode = 1
    /\ tocOut = NoOutput

----------------------------------------------------------------------------
(* Properties of the _TrackTime conversions *)

\* C18: the triple built from a frame count n >= 0 has seconds in [0,60)
\* and frames in [0,75), and it stands for exactly n frames at 75 frames
\* per second and 60 seconds per minute.
FrameRoundTrip ==
    (pc = "frames" /\ tres # NoResult) =>
        (ValidTime(tres.v) /\ Frames(tres.v) = tn)

\* 4574 frames are 01:00:74
FrameRoundTripWitness ==
    /\ pc = "frames"
    /\ tn = FPM + FPS - 1
    /\ tres # NoResult
    /\ tres.v = <<1, 0, FPS - 1>>

\* C19: printing the time read from a string MM:SS:FF with two-digit
\* fields gives the string back, whatever the fields are; reading the
\* printed form of a triple with minutes in [0,99], seconds in [0,60) and
\* frames in [0,75) gives an equal time.
StringRoundTrip ==
    /\ (pc = "string" /\ tres # NoResult) => tres.r = tres.s
    /\ (pc = "triple" /\ tres # NoResult) => tres.v = tx

\* 99:98:97 is read as (99, 98, 97) and printed as 99:98:97
StringRoundTripWitness ==
    /\ pc = "string"
    /\ tres # NoResult
    /\ tres.s = <<"9", "9", ":", "9", "8", ":", "9", "7">>
    /\ tres.v = <<99, 98, 97>>
    /\ tres.r = tres.s

\* (99, 59, 74) is printed as 99:59:74 and read back
TripleRoundTripWitness ==
    /\ pc = "triple"
    /\ tx = <<99, SPM - 1, FPS - 1>>
    /\ tres # NoResult
    /\ tres.s = <<"9", "9", ":", "5", "9", ":", "7", "4">>
    /\ tres.v = tx

----------------------------------------------------------------------------
(* Properties of WavFileCache.__call__ *)

\* the cached files the fuzzy pattern of the name matches after the step
CachedMatches(name) == {f \in wdata'.v : FileRegexSearch(name, f)}

\* the name, with '\' read as '/', ends in .wav and is a file of the
\* directory before the step
NamesExistingWav(name) ==
    /\ EndsWithWav(ReplaceChar(name, "\\", "/"))
    /\ \/ ReplaceChar(name, "\\", "/") \in disk
       \/ \E f \in disk : ReplaceChar(name, "\\", "/") = <<".", "/">> \o f

\* the outcome of a call, by cases
CallOutcome ==
    wcalls' = wcalls + 1 =>
        IF NamesExistingWav(wres'.name)
        THEN wres'.kind = "return" /\ wres'.file = wres'.name
        ELSE /\ wdata'.set
             /\ wres'.kind = "return" <=> Cardinality(CachedMatches(wres'.name)) = 1
             /\ wres'.kind = "return" => wres'.file \in CachedMatches(wres'.name)
             /\ wres'.kind = "FileNotFoundError"
                   <=> CachedMatches(wres'.name) = {}
             /\ wres'.kind = "TooManyFilesMatchError"
                   <=> Cardinality(CachedMatches(wres'.name)) > 1
             /\ wres'.kind = "TooManyFilesMatchError"
                   => wres'.found = CachedMatches(wres'.name)

\* once the cache exists it is kept and the directory is not walked again
NoRescan ==
    wdata.set => (wdata' = wdata /\ wscans' = wscans)

\* C20: a call returns the name unchanged when it names an existing .wav
\* file; otherwise it returns a cached file exactly when one cached file
\* matches the pattern of the name, raises FileNotFoundError when none
\* matches and TooManyFilesMatchError with the candidates when several
\* match; the directory is walked at most once per cache object.
LookupOutcome ==
    [][CallOutcome]_vars /\ [][NoRescan]_vars /\ [](wscans <= 1)

\* the second call of a cache object finds two candidates for a name in
\* the cache made by the first call
LookupOutcomeWitness ==
    /\ pc = "wav"
    /\ wcalls = 2
    /\ wscans = 1
    /\ wres.kind = "TooManyFilesMatchError"
    /\ Cardinality(wres.found) = 2
    /\ wres.found \subseteq wdata.v

----------------------------------------------------------------------------
(* Properties of the pairing of the rewrite pass *)

\* a track with a single index keeps the command AUDIO, its start time and
\* a length that is not removed
SingleIndexUntouched ==
    \A t \in 1..Len(tracks) :
       Len(tracks[t].indexes) = 1 =>
          /\ tracks[t].indexes[1].cmd = AUDIO
          /\ tracks[t].indexes[1].time.set
          /\ tracks[t].indexes[1].len_.st # "del"

\* a turn of the pass on the last index of a track changes at most the
\* length of that index; a turn on an index of the last track leaves the
\* length of that index as it is
NoNextStep ==
    (pc = "mung" /\ pc' # "failed") =>
       LET old == tracks[ti].indexes
           new == tracks'[ti].indexes
       IN  /\ Len(new) = Len(old)
           /\ ii = Len(old) =>
                 \A j \in 1..Len(old) :
                    /\ new[j].cmd = old[j].cmd
                    /\ new[j].time = old[j].time
                    /\ j # ii => new[j].len_ = old[j].len_
           /\ ti = Len(tracks) => new[ii].len_ = old[ii].len_

\* C21: the last index of a track is processed without a next index and
\* the last track without a next track, and nothing is paired with itself:
\* a single-index track has no command reclassified and no field removed,
\* and the indexes of the last track are not truncated against a next
\* track.
NoNextSentinel == []SingleIndexUntouched /\ [][NoNextStep]_vars

\* two single-index tracks on one file: the first is truncated at the start
\* of the second and stays AUDIO, the second keeps the length it was built
\* with
NoNextSentinelWitness ==
    /\ pc = "done"
    /\ Len(tracks) = 2
    /\ Len(tracks[1].indexes) = 1 /\ Len(tracks[2].indexes) = 1
    /\ tracks[1].indexes[1].file_ = tracks[2].indexes[1].file_
    /\ tracks[1].indexes[1].len_ # built[1].indexes[1].len_
    /\ tracks[1].indexes[1].cmd = AUDIO
    /\ tracks[2].indexes[1] = built[2].indexes[1]

----------------------------------------------------------------------------
(* Properties of the two rules of TrackIndex.mung *)

\* the turn of the pass on the pair (self, next) is over without a failure
PairStepDone ==
    /\ pc = "mung" /\ pc' # "failed"
    /\ ii < Len(tracks[ti].indexes)

\* the turn reclassifies self as PREAUDIO
PregapFires ==
    /\ tracks[ti].indexes[ii].cmd # PREAUDIO
    /\ tracks'[ti].indexes[ii].cmd = PREAUDIO

\* C22 as stated: the turn of a pair that reclassifies self as PREAUDIO
\* also reclassifies the successor of self as START.
BothRulesFire ==
    [][(PairStepDone /\ PregapFires)
          => tracks'[ti].indexes[ii + 1].cmd = START]_vars

\* C22 as amended: for one pair at most one of the two rules fires.  When
\* self has number 0 and the files differ, self becomes PREAUDIO and its
\* successor is left as it is; when the files are equal the successor
\* becomes START (self has number 0) or INDEX (otherwise) and the command of
\* self is left as it is.
RulesExclusive ==
    [][PairStepDone =>
         LET self == tracks[ti].indexes[ii]
             next == tracks[ti].indexes[ii + 1]
             self2 == tracks'[ti].indexes[ii]
             next2 == tracks'[ti].indexes[ii + 1]
         IN  IF self.file_ # next.file_
             THEN /\ next2 = next
                  /\ self2.cmd = (IF self.num = 0 THEN PREAUDIO ELSE self.cmd)
             ELSE /\ self2.cmd = self.cmd
                  /\ next2.cmd = (IF self.num = 0 THEN START ELSE INDEX)]_vars

\* index 0 on one file and index 1 on another: after the pass the first is
\* PREAUDIO and the second is still AUDIO with its start time
RulesExclusiveWitness ==
    /\ pc = "done"
    /\ \E t \in 1..Len(tracks) :
          /\ Len(tracks[t].indexes) >= 2
          /\ built[t].indexes[1].num = 0
          /\ built[t].indexes[1].file_ # built[t].indexes[2].file_
          /\ tracks[t].indexes[1].cmd = PREAUDIO
          /\ tracks[t].indexes[2].cmd = AUDIO
          /\ tracks[t].indexes[2].time.set

----------------------------------------------------------------------------
(* Properties of the tracks the parser builds *)

\* the name the lookup gives for a name written on a FILE line: the name
\* itself when it is an existing path, the one WAV file that matches it
\* when there is exactly one, and the name itself otherwise
ResolvedName(d, name) ==
    LET m == {f \in d : FuzzyMatch(name, "./" \o f)}
    IN  IF name \in d \/ \E f \in d : name = "./" \o f THEN name
        ELSE IF Cardinality(m) = 1 THEN "./" \o (CHOOSE f \in m : TRUE)
        ELSE name

\* the parser has returned its track list
TracksParsed == pc \in {"parsed", "mung", "munged", "done"}

\* C23: every TrackIndex made from an INDEX line refers to the resolved
\* name of the nearest FILE line above that INDEX line, whether the FILE
\* line stands above the TRACK line of the track or between the TRACK line
\* and the INDEX line.
ActiveFileContext ==
    TracksParsed =>
        /\ Len(FlatIndexes(tracks)) = Cardinality(LinesOfKind("index"))
        /\ \A n \in 1..Len(FlatIndexes(tracks)) :
              FlatIndexes(tracks)[n].file_
                 = ResolvedName(disk, FileAbove(NthIndexLine(n)))

\* a sheet of two tracks whose second FILE line stands above the second
\* TRACK line and resolves to another path than it names
ActiveFileContextWitness ==
    /\ pc = "done"
    /\ Len(tracks) = 2
    /\ \E j \in LinesOfKind("file") :
          /\ j > 1
          /\ cue[j + 1].k = "track"
          /\ ResolvedName(disk, cue[j].val) # cue[j].val
          /\ tracks[2].indexes # <<>>
          /\ tracks[2].indexes[1].file_ = ResolvedName(disk, cue[j].val)
          /\ tracks[1].indexes # <<>>
          /\ tracks[1].indexes[1].file_ # tracks[2].indexes[1].file_

\* C24: after a parse that succeeded every track of the track list has at
\* least one index.
FirstIndexPresent ==
    TracksParsed => \A t \in 1..Len(tracks) : tracks[t].indexes # <<>>

----------------------------------------------------------------------------
(* Properties of StateMachine *)

\* the handler invocations so far are those of the lines passed so far, one
\* for each line and in the order of the list
FsmLogInOrder ==
    /\ Len(fsmLog) = fsmPos
    /\ fsmPos <= Len(fsmLines)
    /\ \A k \in 1..Len(fsmLog) :
          fsmLog[k].pos = k /\ fsmLog[k].line = fsmLines[k]
    /\ pc = "fsmreturned" => fsmPos = Len(fsmLines)

\* the line the loop is at has a match and a handler for its group name
FsmHandles(l) ==
    /\ fsmRegex.set /\ fsmRegex.v[l] # NoGroup
    /\ fsmHandlers.set /\ fsmRegex.v[l] \in DOMAIN fsmHandlers.v

\* a turn of the loop adds exactly the invocation of the handler registered
\* for the group name of the match of the next line, or ends the call with
\* an exception and no invocation; that exception is NullStateException
\* when the line has no match
FsmTurn ==
    pc = "fsmcall" =>
        LET l == fsmLines[fsmPos + 1]
        IN  IF FsmHandles(l)
            THEN /\ fsmLog' = Append(fsmLog,
                        [pos |-> fsmPos + 1, line |-> l,
                         name |-> fsmRegex.v[l],
                         handler |-> fsmHandlers.v[fsmRegex.v[l]]])
                 /\ pc' \in {"fsmcall", "fsmreturned"}
            ELSE /\ pc' = "fsmraised"
                 /\ fsmLog' = fsmLog /\ fsmPos' = fsmPos
                 /\ (fsmRegex.set /\ fsmRegex.v[l] = NoGroup)
                       => err' = "NullStateException"

\* after the exception nothing more of the list is handled
FsmRaisedEnds ==
    pc = "fsmraised" => pc' = "fsm" /\ fsmLog' = <<>>

\* change_state replaces what a keyword gives and keeps the other attribute
FsmChangeFrame ==
    /\ ~fsmArgs'.regex_obj.set => fsmRegex' = fsmRegex
    /\ ~fsmArgs'.match_handlers.set => fsmHandlers' = fsmHandlers
    /\ fsmArgs'.regex_obj.set => fsmRegex' = fsmArgs'.regex_obj

\* C25: the state machine handles the lines of its input in order; a line
\* that matches the current pattern gets exactly one handler invocation,
\* that of the handler registered for the matched group name; the first
\* line without a match raises NullStateException and no later line is
\* handled; change_state with one keyword leaves the other attribute as it
\* was.
FsmRunOrder ==
    /\ []FsmLogInOrder
    /\ [][FsmTurn /\ FsmRaisedEnds /\ FsmChangeFrame]_vars

\* a call on three lines: the first line was handled and its handler has
\* changed the pattern alone, the second line has no match, the third line
\* has a match and a handler and was not handled
FsmRunOrderWitness ==
    /\ pc = "fsmraised"
    /\ err = "NullStateException"
    /\ Len(fsmLines) = 3
    /\ Len(fsmLog) = 1
    /\ fsmArgs.regex_obj.set /\ ~fsmArgs.match_handlers.set
    /\ fsmLines[2] = fsmLines[1]
    /\ FsmHandles(fsmLines[3])

----------------------------------------------------------------------------
(* Properties of ProgressBar *)

\* C26: with a fixed bar_max >= 0 the size of a progress bar never exceeds
\* bar_max, whatever the operands of +=, and a += whose operand would take
\* the size above bar_max leaves the size equal to bar_max.
ProgressBound ==
    /\ [](barSize <= barMax)
    /\ [][barSize + barOther' > barMax => barSize' = barMax]_vars

\* the second += of a bar overshoots by more than one and the size is
\* bar_max
ProgressBoundWitness ==
    /\ pc = "bar"
    /\ barAdds = 2
    /\ barMax > 0
    /\ barOther > barMax + 1
    /\ barSize = barMax

----------------------------------------------------------------------------
(* Properties of the attributes the rewrite pass removes *)

\* index number 0 occurs only as the first index of a track
ZeroOnlyFirst ==
    \A t \in 1..Len(tracks) : \A i \in 2..Len(tracks[t].indexes) :
       tracks[t].indexes[i].num # 0

\* the attributes the formatter reads of an index are there
FieldsOfCmd(idx) ==
    /\ idx.cmd \in {AUDIO, PREAUDIO} => idx.time.set /\ idx.len_.st # "del"
    /\ idx.cmd = INDEX => idx.time.set
    /\ idx.cmd = START => idx.len_.st = "time"

\* no exception of a read of a removed attribute, and after the pass every
\* index has the attributes of its command
NoInvalidRead ==
    ZeroOnlyFirst =>
        /\ pc = "failed" =>
              /\ err \notin {"KeyError", "AttributeError"}
              /\ err = "TypeError" => disc.mung # "method"
        /\ pc \in {"munged", "done"} =>
              \A t \in 1..Len(tracks) : \A i \in 1..Len(tracks[t].indexes) :
                 FieldsOfCmd(tracks[t].indexes[i])

\* the pass visits an index that is a StartMarker or an IndexMarker: the
\* turn makes no subtraction, does not fail and leaves the index as it is
MarkerTurn ==
    (/\ pc = "mung"
     /\ ZeroOnlyFirst
     /\ tracks[ti].indexes[ii].cmd \in {START, INDEX})
        => /\ pc' # "failed"
           /\ subs' = {}
           /\ tracks'[ti].indexes[ii] = tracks[ti].indexes[ii]

\* the lines of the TOC: a START line of an index carries no start time,
\* an INDEX line no length
MarkerLines ==
    pc = "done" =>
        \A n \in 1..Len(toc) :
           /\ toc[n].k = "START" => toc[n].b = ""
           /\ toc[n].k = "INDEX" => toc[n].c = ""

\* C27: on a disc whose index number 0 occurs only as the first index of a
\* track, neither the rewrite pass nor the formatter reads an attribute the
\* pass has removed: a StartMarker or IndexMarker is not truncated and is
\* no operand of a subtraction, a START line has no start time and an INDEX
\* line no length, and after the pass each index has the attributes of its
\* command.
NoInvalidatedRead ==
    /\ [](NoInvalidRead /\ MarkerLines)
    /\ [][MarkerTurn]_vars

\* a finished conversion of a track with the index numbers 0 and 1 on one
\* file, followed by a track on the same file: the second index is a
\* StartMarker without start time and was not truncated
NoInvalidatedReadWitness ==
    /\ pc = "done"
    /\ ZeroOnlyFirst
    /\ Len(tracks) = 2
    /\ Len(tracks[1].indexes) = 2
    /\ tracks[1].indexes[1].num = 0
    /\ tracks[1].indexes[1].cmd = AUDIO
    /\ tracks[1].indexes[2].cmd = START /\ ~tracks[1].indexes[2].time.set
    /\ tracks[2].indexes # <<>>
    /\ tracks[2].indexes[1].file_ = tracks[1].indexes[2].file_
    /\ \E n \in 1..Len(toc) : toc[n].k = "START" /\ toc[n].c # ""

----------------------------------------------------------------------------
(* Properties of the first index of a track *)

\* the first index of every track that has one is an AudioFile or a
\* PregapAudio with the start time it was parsed with
FirstIndexAnchor ==
    \A t \in 1..Len(tracks) :
       tracks[t].indexes # <<>> =>
          /\ tracks[t].indexes[1].cmd \in {AUDIO, PREAUDIO}
          /\ tracks[t].indexes[1].time.set
          /\ Len(built) = Len(tracks) =>
                tracks[t].indexes[1].time = built[t].indexes[1].time

IndexLineKeys == {"AUDIOFILE", "START", "INDEX"}

\* in the TOC the first index line below the head of a track is an
\* AUDIOFILE line
AnchorLine ==
    pc = "done" =>
        \A n \in 1..Len(toc) :
           toc[n].k = "//Track" =>
              \A m \in (n + 1)..Len(toc) :
                 (/\ toc[m].k \in IndexLineKeys
                  /\ \A j \in (n + 1)..(m - 1) :
                        toc[j].k \notin IndexLineKeys \cup {"//Track"})
                    => toc[m].k = "AUDIOFILE"

\* C28: during the rewrite pass and after it the first index of every track
\* keeps its start time and is an AudioFile or a PregapAudio, never an
\* IndexMarker or a StartMarker; the index lines written for a track that
\* is no data track and has an index begin with an AUDIOFILE line.
FirstIndexIsAnchor == FirstIndexAnchor /\ AnchorLine

\* a finished conversion of two tracks: the first index of track 1 is a
\* PregapAudio, its second index was truncated at the start time the
\* look-ahead read from the first index of track 2
FirstIndexIsAnchorWitness ==
    /\ pc = "done"
    /\ Len(tracks) = 2
    /\ Len(tracks[1].indexes) = 2
    /\ tracks[1].indexes[1].cmd = PREAUDIO
    /\ tracks[1].indexes[2].cmd = AUDIO
    /\ tracks[2].indexes # <<>>
    /\ tracks[2].indexes[1].time.set
    /\ tracks[1].indexes[2].len_
          = LenTime(TimeSub(tracks[2].indexes[1].time.v,
                            tracks[1].indexes[2].time.v).v)
    /\ Cardinality({n \in 1..Len(toc) : toc[n].k = "AUDIOFILE"}) = 3

----------------------------------------------------------------------------
(* Properties of the failures of the rewrite pass *)

\* C29: a turn of the loops of the rewrite pass that fails, fails with
\* UnderflowError, for every track list the parser can return, a track
\* without index after a track with indexes included.
RewriteFailsOnlyUnderflow ==
    [][(pc = "mung" /\ pc' = "failed") => err' = "UnderflowError"]_vars

----------------------------------------------------------------------------
(* Properties of what the rewrite pass leaves alone *)

\* a track without its indexes: number, performer, title, isrc, flags,
\* pregap, is_data
TrackFields(trk) == [trk EXCEPT !.indexes = <<>>]

\* the track list is the list the parser returned but for cmd, len_ and
\* time of its indexes, and a time is as parsed or removed
RewriteFrame ==
    built # <<>> =>
        /\ Len(tracks) = Len(built)
        /\ \A t \in 1..Len(built) :
              /\ TrackFields(tracks[t]) = TrackFields(built[t])
              /\ Len(tracks[t].indexes) = Len(built[t].indexes)
              /\ \A i \in 1..Len(built[t].indexes) :
                    /\ tracks[t].indexes[i].num = built[t].indexes[i].num
                    /\ tracks[t].indexes[i].file_ = built[t].indexes[i].file_
                    /\ \/ tracks[t].indexes[i].time = built[t].indexes[i].time
                       \/ ~tracks[t].indexes[i].time.set

\* no step of the pass changes the disc
DiscFrame == pc \in {"parsed", "mung"} => disc' = disc

\* C30: the rewrite pass changes only cmd, len_ and (by removal) time of
\* indexes; index numbers, file references, number and order of the
\* indexes of a track, number and order of the tracks, the fields of a
\* track and the fields of the disc, the mode included, stay as parsed.
RewritePassFrame == []RewriteFrame /\ [][DiscFrame]_vars

\* a finished conversion whose pass has changed the cmd of one index, the
\* length of another and removed a start time
RewritePassFrameWitness ==
    /\ pc = "done"
    /\ Len(tracks) = 2
    /\ \E t \in 1..2 : \E i \in 1..Len(tracks[t].indexes) :
          /\ tracks[t].indexes[i].cmd # built[t].indexes[i].cmd
          /\ ~tracks[t].indexes[i].time.set
    /\ \E t \in 1..2 : \E i \in 1..Len(tracks[t].indexes) :
          /\ tracks[t].indexes[i].cmd = built[t].indexes[i].cmd
          /\ tracks[t].indexes[i].len_ # built[t].indexes[i].len_

====
